---- MODULE Spec2Model ----
(***************************************************************************)
(* Pooling calculator: the single-stage pool volume engine                 *)
(* (compute.py), the pre-pooling orchestrator (prepooling.py), the         *)
(* hierarchical orchestrator (hierarchical.py) and the plan models         *)
(* (models.py).                                                            *)
(*                                                                         *)
(* A table (pandas DataFrame) is a record [columns, rows]: rows is a       *)
(* sequence of functions from column name to value.  Numbers are exact     *)
(* rationals <<numerator, denominator>> in lowest terms with a positive    *)
(* denominator; IEEE rounding of the Python floats is not modelled.        *)
(* None is the empty tuple.  The column names "Stock Volume (µl)" and      *)
(* "Final Volume (µl)" are written with "ul".                              *)
(***************************************************************************)
EXTENDS Integers, Sequences, FiniteSets, TLC

VARIABLES
    df,     \* the caller's table object
    defs,   \* the caller's list of PrePoolDefinition objects
    call,   \* the call being made: operation name and arguments as passed
    pc,     \* "start" before the call, "done" after it returned or raised
    ret,    \* what the call returned, or the error it raised
    validation  \* the caller's ValidationResult object, None while there is none

vars == <<df, defs, call, pc, ret, validation>>

---------------------------------------------------------------------------
(* Bounds of the model *)

MaxLibs == 2
MaxPrepoolLibs == 3
MaxDefs == 2
MaxCount == 3
MaxHierLibs == 3
MaxMessages == 4
MaxSplitLibs == 4

---------------------------------------------------------------------------
(* Exact rational arithmetic standing for Python float arithmetic *)

None == <<>>

AbsInt(x) == IF x < 0 THEN -x ELSE x

RECURSIVE GCD(_, _)
GCD(a, b) == IF b = 0 THEN a ELSE GCD(b, a % b)

Rat(n, d) ==
    LET s == IF d < 0 THEN -1 ELSE 1
        g == GCD(AbsInt(n), AbsInt(d))
    IN  <<(s * n) \div g, (s * d) \div g>>

R(n) == <<n, 1>>
Zero == <<0, 1>>
One == <<1, 1>>

RAdd(a, b) == Rat(a[1] * b[2] + b[1] * a[2], a[2] * b[2])
RMul(a, b) == Rat(a[1] * b[1], a[2] * b[2])
RDiv(a, b) == Rat(a[1] * b[2], a[2] * b[1])
RLt(a, b) == a[1] * b[2] < b[1] * a[2]
RLe(a, b) == a[1] * b[2] <= b[1] * a[2]
RGt(a, b) == RLt(b, a)

RECURSIVE RSum(_)
RSum(s) == IF s = <<>> THEN Zero ELSE RAdd(Head(s), RSum(Tail(s)))

\* the values of one column, in row order
Column(t, c) == [i \in DOMAIN t.rows |-> t.rows[i][c]]

\* df[c] = values: add or overwrite a column
WithColumn(t, c, values) ==
    [columns |-> t.columns \cup {c},
     rows |-> [i \in DOMAIN t.rows |->
                 [k \in (DOMAIN t.rows[i]) \cup {c} |->
                     IF k = c THEN values[i] ELSE t.rows[i][k]]]]

---------------------------------------------------------------------------
(* config.py *)

PRE_DILUTE_THRESHOLD_10X == Rat(1, 5)
PRE_DILUTE_THRESHOLD_5X == Rat(159, 200)

---------------------------------------------------------------------------
(* compute.py: compute_pool_volumes *)

Raise(exc, msg, at) == [kind |-> "error", exc |-> exc, msg |-> msg, at |-> at]
Return(v) == [kind |-> "ok", value |-> v]
NoRet == [kind |-> "none"]

\* a variant with the boundaries on the wrong side
calculate_pre_dilute_factor_le(stock_vol) ==
    IF RLe(stock_vol, PRE_DILUTE_THRESHOLD_10X) THEN 10
    ELSE IF RLe(stock_vol, PRE_DILUTE_THRESHOLD_5X) THEN 5
    ELSE 1

calculate_pre_dilute_factor(stock_vol) ==
    IF RLt(stock_vol, PRE_DILUTE_THRESHOLD_10X) THEN 10
    ELSE IF RLt(stock_vol, PRE_DILUTE_THRESHOLD_5X) THEN 5
    ELSE 1

\* a variant that multiplies by the molarity
StockVolume_times(scaling_factor, adj_lib_nM, target_reads) ==
    RMul(RMul(scaling_factor, adj_lib_nM), target_reads)

\* line 174: (scaling_factor / df["Adjusted lib nM"]) * df["Target Reads (M)"]
StockVolume(scaling_factor, adj_lib_nM, target_reads) ==
    RMul(RDiv(scaling_factor, adj_lib_nM), target_reads)

\* line 200
FinalVolume(stock_vol, pre_dilute) == RMul(stock_vol, R(pre_dilute))

\* "; ".join(flags): the text is the flag messages with "; " between them
RECURSIVE Join(_)
Join(flags) ==
    IF Len(flags) = 0 THEN <<>>
    ELSE IF Len(flags) = 1 THEN flags
    ELSE <<Head(flags), "; ">> \o Join(Tail(flags))

PreDiluteMessage(pre_dilute) ==
    IF pre_dilute = 10 THEN "Pre-dilute 10x recommended"
    ELSE IF pre_dilute = 5 THEN "Pre-dilute 5x recommended"
    ELSE "Pre-dilute 1x recommended"

\* a variant that stops at the first flag found (an elif chain)
RowFlags_first(t, row, min_volume_ul, max_volume_ul) ==
    LET final_vol == row["Final Volume (ul)"]
        pre_dilute == row["Pre-Dilute Factor"]
    IN  IF "Total Volume" \in t.columns /\ RGt(final_vol, row["Total Volume"])
        THEN <<"Insufficient volume">>
        ELSE IF pre_dilute > 1 THEN <<PreDiluteMessage(pre_dilute)>>
        ELSE IF RLt(final_vol, min_volume_ul) THEN <<"Below minimum pipettable volume">>
        ELSE IF max_volume_ul # None /\ RGt(final_vol, max_volume_ul)
        THEN <<"Exceeds maximum volume">>
        ELSE <<>>

\* lines 206-230, one iteration: the flag text of one row.  The numbers the
\* messages embed are left out; a message stands for its flag.
RowFlags(t, row, min_volume_ul, max_volume_ul) ==
    LET final_vol == row["Final Volume (ul)"]
        pre_dilute == row["Pre-Dilute Factor"]
        f1 == IF "Total Volume" \in t.columns /\ RGt(final_vol, row["Total Volume"])
              THEN <<"Insufficient volume">> ELSE <<>>
        f2 == IF pre_dilute > 1 THEN <<PreDiluteMessage(pre_dilute)>> ELSE <<>>
        f3 == IF RLt(final_vol, min_volume_ul)
              THEN <<"Below minimum pipettable volume">> ELSE <<>>
        f4 == IF max_volume_ul # None /\ RGt(final_vol, max_volume_ul)
              THEN <<"Exceeds maximum volume">> ELSE <<>>
    IN  Join(f1 \o f2 \o f3 \o f4)

\* a variant that takes the diluted volume
MolContribution_final(t) ==
    [i \in DOMAIN t.rows |->
        RMul(t.rows[i]["Final Volume (ul)"], t.rows[i]["Adjusted lib nM"])]

\* lines 234-236: the mol contributions and their normalising sum
MolContribution(t) ==
    [i \in DOMAIN t.rows |->
        RMul(t.rows[i]["Stock Volume (ul)"], t.rows[i]["Adjusted lib nM"])]

TotalMol(t) == RSum(MolContribution(t))

\* a variant that normalises by the summed stock volume
PoolFraction_byVolume(t) ==
    [i \in DOMAIN t.rows |->
        RDiv(MolContribution(t)[i], RSum(Column(t, "Stock Volume (ul)")))]

PoolFraction(t) ==
    [i \in DOMAIN t.rows |-> RDiv(MolContribution(t)[i], TotalMol(t))]

\* a variant without the check of min_volume_ul
ValidateInputs_noMin(t, scaling_factor, min_volume_ul, max_volume_ul) ==
    IF RLe(scaling_factor, Zero)
    THEN Raise("ValueError", "Scaling factor must be > 0", "validate")
    ELSE IF max_volume_ul # None /\ RLt(max_volume_ul, Zero)
    THEN Raise("ValueError", "Max volume must be >= 0", "validate")
    ELSE IF {"Adjusted lib nM", "Target Reads (M)"} \ t.columns # {}
    THEN Raise("ValueError", "Missing required columns", "validate")
    ELSE None

\* lines 157-169: the error raised by the input checks, or None
ValidateInputs(t, scaling_factor, min_volume_ul, max_volume_ul) ==
    IF RLe(scaling_factor, Zero)
    THEN Raise("ValueError", "Scaling factor must be > 0", "validate")
    ELSE IF RLt(min_volume_ul, Zero)
    THEN Raise("ValueError", "Min volume must be >= 0", "validate")
    ELSE IF max_volume_ul # None /\ RLt(max_volume_ul, Zero)
    THEN Raise("ValueError", "Max volume must be >= 0", "validate")
    ELSE IF {"Adjusted lib nM", "Target Reads (M)"} \ t.columns # {}
    THEN Raise("ValueError", "Missing required columns", "validate")
    ELSE None

\* line 174
AddStockVolume(t, scaling_factor) ==
    WithColumn(t, "Stock Volume (ul)",
        [i \in DOMAIN t.rows |->
            StockVolume(scaling_factor, t.rows[i]["Adjusted lib nM"],
                        t.rows[i]["Target Reads (M)"])])

\* line 196
AddPreDiluteFactor(t) ==
    WithColumn(t, "Pre-Dilute Factor",
        [i \in DOMAIN t.rows |->
            calculate_pre_dilute_factor(t.rows[i]["Stock Volume (ul)"])])

\* line 200
AddFinalVolume(t) ==
    WithColumn(t, "Final Volume (ul)",
        [i \in DOMAIN t.rows |->
            FinalVolume(t.rows[i]["Stock Volume (ul)"], t.rows[i]["Pre-Dilute Factor"])])

\* lines 203-230
AddFlags(t, min_volume_ul, max_volume_ul) ==
    WithColumn(t, "Flags",
        [i \in DOMAIN t.rows |-> RowFlags(t, t.rows[i], min_volume_ul, max_volume_ul)])

\* lines 234-236, 243
AddPoolFraction(t) == WithColumn(t, "Pool Fraction", PoolFraction(t))

\* a variant that emits the column also when no total is supplied
AddExpectedReads_always(t, total_reads_m) ==
    WithColumn(t, "Expected Reads (M)",
        [i \in DOMAIN t.rows |->
            IF total_reads_m # None THEN RMul(t.rows[i]["Pool Fraction"], total_reads_m)
            ELSE Zero])

\* lines 239-240
AddExpectedReads(t, total_reads_m) ==
    IF total_reads_m # None
    THEN WithColumn(t, "Expected Reads (M)",
            [i \in DOMAIN t.rows |-> RMul(t.rows[i]["Pool Fraction"], total_reads_m)])
    ELSE t

\* lines 171-243: the columns the engine adds to its copy of the table, in order
EngineTable(t, scaling_factor, min_volume_ul, max_volume_ul, total_reads_m) ==
    AddExpectedReads(
        AddPoolFraction(
            AddFlags(
                AddFinalVolume(AddPreDiluteFactor(AddStockVolume(t, scaling_factor))),
                min_volume_ul, max_volume_ul)),
        total_reads_m)

\* used by the variant below: any volume below the minimum is an error
AbortBelowMinimum(err, out, min_volume_ul) ==
    IF err # None THEN err
    ELSE IF \E i \in DOMAIN out.rows : RLt(out.rows[i]["Final Volume (ul)"], min_volume_ul)
    THEN Raise("ValueError", "Volume below minimum", "rows")
    ELSE Return(out)

\* a variant that aborts the batch when some volume is below the minimum
compute_pool_volumes_abort(t, scaling_factor, min_volume_ul, max_volume_ul, total_reads_m) ==
    AbortBelowMinimum(
        ValidateInputs(t, scaling_factor, min_volume_ul, max_volume_ul),
        EngineTable(t, scaling_factor, min_volume_ul, max_volume_ul, total_reads_m),
        min_volume_ul)

compute_pool_volumes(t, scaling_factor, min_volume_ul, max_volume_ul, total_reads_m) ==
    LET err == ValidateInputs(t, scaling_factor, min_volume_ul, max_volume_ul)
    IN  IF err # None THEN err
        ELSE Return(EngineTable(t, scaling_factor, min_volume_ul, max_volume_ul,
                                total_reads_m))

---------------------------------------------------------------------------
(* compute.py: molarity.  A missing value (NaN) of a column is None. *)

\* config.py line 15
MW_PER_BP == R(660)

\* a variant that accepts a concentration of zero
compute_molarity_from_concentration_zeroOk(concentration_ng_ul, fragment_size_bp) ==
    IF RLt(concentration_ng_ul, Zero)
    THEN Raise("ValueError", "Concentration must be > 0",
               "compute_molarity_from_concentration")
    ELSE IF RLe(fragment_size_bp, Zero)
    THEN Raise("ValueError", "Fragment size must be > 0",
               "compute_molarity_from_concentration")
    ELSE Return(RDiv(RMul(concentration_ng_ul, R(1000000)),
                     RMul(MW_PER_BP, fragment_size_bp)))

\* lines 23-55
compute_molarity_from_concentration(concentration_ng_ul, fragment_size_bp) ==
    IF RLe(concentration_ng_ul, Zero)
    THEN Raise("ValueError", "Concentration must be > 0",
               "compute_molarity_from_concentration")
    ELSE IF RLe(fragment_size_bp, Zero)
    THEN Raise("ValueError", "Fragment size must be > 0",
               "compute_molarity_from_concentration")
    ELSE Return(RDiv(RMul(concentration_ng_ul, R(1000000)),
                     RMul(MW_PER_BP, fragment_size_bp)))

\* lines 85-94: what the conversion returns or raises for each row
RowMolarities(t) ==
    [i \in DOMAIN t.rows |->
        compute_molarity_from_concentration(t.rows[i]["Final ng/ul"],
                                            t.rows[i]["Adjusted peak size"])]

\* line 96
AddCalculatedNm(t, molarities) ==
    WithColumn(t, "Calculated nM", [i \in DOMAIN t.rows |-> molarities[i].value])

\* a variant that takes every empirical value that is present
EffectiveNm_anyEmpirical(row) ==
    IF "Empirical Library nM" \in DOMAIN row /\ row["Empirical Library nM"] # None
    THEN row["Empirical Library nM"]
    ELSE row["Calculated nM"]

\* lines 99-107: the effective molarity of one row
EffectiveNm(row) ==
    IF /\ "Empirical Library nM" \in DOMAIN row
       /\ row["Empirical Library nM"] # None
       /\ RGt(row["Empirical Library nM"], Zero)
    THEN row["Empirical Library nM"]
    ELSE row["Calculated nM"]

\* lines 98-107
AddEffectiveNm(t) ==
    WithColumn(t, "Effective nM (Use)", [i \in DOMAIN t.rows |-> EffectiveNm(t.rows[i])])

\* line 110
AddAdjustedLibNm(t) ==
    WithColumn(t, "Adjusted lib nM",
               [i \in DOMAIN t.rows |-> t.rows[i]["Effective nM (Use)"]])

\* lines 84-113: molarities holds the outcome of the conversion per row; the
\* first row that fails ends the loop
EffectiveFromMolarities(t, molarities) ==
    IF \E i \in DOMAIN molarities : molarities[i].kind = "error"
    THEN Raise("ValueError",
               molarities[CHOOSE i \in DOMAIN molarities :
                            /\ molarities[i].kind = "error"
                            /\ \A j \in 1..(i - 1) : molarities[j].kind = "ok"].msg,
               "compute_effective_molarity")
    ELSE Return(AddAdjustedLibNm(AddEffectiveNm(AddCalculatedNm(t, molarities))))

\* lines 58-113
compute_effective_molarity(t) ==
    IF {"Final ng/ul", "Adjusted peak size"} \ t.columns # {}
    THEN Raise("ValueError", "Missing required columns", "compute_effective_molarity")
    ELSE EffectiveFromMolarities(t, RowMolarities(t))

---------------------------------------------------------------------------
(* Helpers on lists and tables *)

InSeq(s, x) == \E i \in DOMAIN s : s[i] = x

Count(s, x) == Cardinality({i \in DOMAIN s : s[i] = x})

\* the distinct elements of s in order of first occurrence (dict key order)
RECURSIVE Uniq(_)
Uniq(s) ==
    IF s = <<>> THEN <<>>
    ELSE LET front == Uniq(SubSeq(s, 1, Len(s) - 1))
             last == s[Len(s)]
         IN  IF InSeq(front, last) THEN front ELSE Append(front, last)

RECURSIVE Flatten(_)
Flatten(ss) == IF ss = <<>> THEN <<>> ELSE Head(ss) \o Flatten(Tail(ss))

\* a variant that reports the first repeated element only
Duplicates_first(s) ==
    LET all == SelectSeq(Uniq(s), LAMBDA x : Count(s, x) > 1)
    IN  IF all = <<>> THEN <<>> ELSE <<Head(all)>>

\* [x for x, count in Counter(s).items() if count > 1]
Duplicates(s) == SelectSeq(Uniq(s), LAMBDA x : Count(s, x) > 1)

\* df[df["Library Name"].isin(names)]: the rows kept, in table order
RowsNamed(t, names) ==
    [columns |-> t.columns,
     rows |-> SelectSeq(t.rows, LAMBDA r : r["Library Name"] \in names)]

SeqToSet(s) == {s[i] : i \in DOMAIN s}

EmptyData == [k \in {} |-> 0]

Get(data, k, default) == IF k \in DOMAIN data THEN data[k] ELSE default

\* an error raised inside an orchestrator: the libraries or ids it names and
\* the number of engine calls started before it
OrchRaise(exc, msg, at, names, calls) ==
    [kind |-> "error", exc |-> exc, msg |-> msg, at |-> at, names |-> names,
     engine_calls |-> calls]

\* an engine error passing through an orchestrator unchanged
Propagate(err, calls) ==
    OrchRaise(err.exc, err.msg, "compute_pool_volumes", <<>>, calls)

---------------------------------------------------------------------------
(* models.py: ValidationResult (lines 176-205).  The object is the record  *)
(* of its fields; a method returns the object as the call leaves it.       *)

\* ValidationResult(is_valid=..., errors=..., warnings=...)
ValidationResult(is_valid, errors, warnings) ==
    [is_valid |-> is_valid, errors |-> errors, warnings |-> warnings]

\* lines 188-191
has_errors(self) == Len(self.errors) > 0

\* lines 193-196
has_warnings(self) == Len(self.warnings) > 0

\* a variant that records the message and leaves is_valid alone
add_error_keepsValid(self, message) ==
    [self EXCEPT !.errors = Append(@, message)]

\* lines 198-201
add_error(self, message) ==
    [self EXCEPT !.errors = Append(@, message), !.is_valid = FALSE]

\* lines 203-205
add_warning(self, message) ==
    [self EXCEPT !.warnings = Append(@, message)]

---------------------------------------------------------------------------
(* models.py: the pre-pooling models *)

\* PrePoolDefinition: min_length=1 on the three fields, unique member names
PrePoolDefinitionValid(prepool_id, prepool_name, member_library_names) ==
    /\ prepool_id # ""
    /\ prepool_name # ""
    /\ Len(member_library_names) >= 1
    /\ Len(member_library_names) = Cardinality(SeqToSet(member_library_names))

\* PrePoolCalculationResult: gt=0 on the three numbers
PrePoolCalculationResultValid(calculated_nm, total_volume_ul, target_reads_m) ==
    /\ RGt(calculated_nm, Zero)
    /\ RGt(total_volume_ul, Zero)
    /\ RGt(target_reads_m, Zero)

\* PrePoolingPlan.validate_library_counts(v, info): data is info.data, the
\* fields validated before the one being validated; TRUE when v is accepted
validate_library_counts(v, data) ==
    IF "total_libraries" \in DOMAIN data
    THEN LET total == data["total_libraries"]
             in_prepools == Get(data, "libraries_in_prepools", 0)
             standalone == Get(data, "standalone_libraries", 0)
         IN  in_prepools + standalone = total
    ELSE TRUE

\* PrePoolingPlan(...): the fields are validated in declaration order
\* (total_libraries, libraries_in_prepools, standalone_libraries); a field
\* enters info.data only once it is valid; ge=0 is checked before the
\* field validator runs
PrePoolingPlan(prepools, remaining_libraries, final_pool, total_libraries, libraries_in_prepools, standalone_libraries, parameters) ==
    LET ok0 == total_libraries >= 0
        d0 == IF ok0 THEN "total_libraries" :> total_libraries ELSE EmptyData
        ok1 == /\ libraries_in_prepools >= 0
               /\ validate_library_counts(libraries_in_prepools, d0)
        d1 == IF ok1 THEN d0 @@ ("libraries_in_prepools" :> libraries_in_prepools)
              ELSE d0
        ok2 == /\ standalone_libraries >= 0
               /\ validate_library_counts(standalone_libraries, d1)
    IN  IF ok0 /\ ok1 /\ ok2
        THEN Return([prepools |-> prepools,
                     remaining_libraries_json |-> remaining_libraries,
                     final_pool_json |-> final_pool,
                     total_libraries |-> total_libraries,
                     libraries_in_prepools |-> libraries_in_prepools,
                     standalone_libraries |-> standalone_libraries,
                     parameters |-> parameters])
        ELSE Raise("ValidationError", "PrePoolingPlan", "PrePoolingPlan")

---------------------------------------------------------------------------
(* prepooling.py *)

\* prepool_name.lower().replace(" ", "_") on the names of the model
PrepoolIdOfName(prepool_name) ==
    CASE prepool_name = "Prepool 1" -> "prepool_1"
      [] prepool_name = "Prepool 2" -> "prepool_2"
      [] OTHER -> prepool_name

\* lines 98-132: the pre-pool's properties from its members' volume table
\* (which already holds the "adj lib pmol" column of line 107)
PrepoolProperties(volumes, selected_library_names, prepool_name) ==
    LET total_volume_ul == RSum(Column(volumes, "Final Volume (ul)"))
        total_pmol == RSum(Column(volumes, "adj lib pmol"))
        calculated_nm == IF RGt(total_volume_ul, Zero)
                         THEN RDiv(total_pmol, total_volume_ul) ELSE Zero
        target_reads_m == RSum(Column(volumes, "Target Reads (M)"))
        prepool_id == PrepoolIdOfName(prepool_name)
    IN  IF ~PrePoolDefinitionValid(prepool_id, prepool_name, selected_library_names)
        THEN OrchRaise("ValidationError", "PrePoolDefinition",
                       "create_prepool_from_selection", <<>>, 1)
        ELSE IF ~PrePoolCalculationResultValid(calculated_nm, total_volume_ul,
                                               target_reads_m)
        THEN OrchRaise("ValidationError", "PrePoolCalculationResult",
                       "create_prepool_from_selection", <<>>, 1)
        ELSE Return([prepool_definition |->
                        [prepool_id |-> prepool_id,
                         prepool_name |-> prepool_name,
                         member_library_names |-> selected_library_names],
                     calculated_nm |-> calculated_nm,
                     total_volume_ul |-> total_volume_ul,
                     target_reads_m |-> target_reads_m,
                     member_volumes_json |-> volumes])

\* a variant that takes the moles in the library's final volume
AddAdjLibPmol_moles(t) ==
    WithColumn(t, "adj lib pmol",
        [i \in DOMAIN t.rows |->
            RMul(t.rows[i]["Adjusted lib nM"], t.rows[i]["Final Volume (ul)"])])

\* line 107
AddAdjLibPmol(t) ==
    WithColumn(t, "adj lib pmol",
        [i \in DOMAIN t.rows |-> RDiv(t.rows[i]["Target Reads (M)"], R(10))])

\* lines 89-132: r is what the engine returned or raised for the members
PrepoolFromEngine(r, selected_library_names, prepool_name) ==
    IF r.kind = "error" THEN Propagate(r, 1)
    ELSE PrepoolProperties(AddAdjLibPmol(r.value), selected_library_names, prepool_name)

\* lines 80-96: selected_df is the table filtered to the selection
PrepoolFromSelected(selected_df, selected_library_names, prepool_name, scaling_factor, min_volume_ul, max_volume_ul) ==
    IF Len(selected_df.rows) = 0
    THEN OrchRaise("ValueError", "No libraries found matching selection",
                   "create_prepool_from_selection", selected_library_names, 0)
    ELSE IF Len(selected_df.rows) # Len(selected_library_names)
    THEN OrchRaise("ValueError", "Some selected libraries not found",
                   "create_prepool_from_selection",
                   SelectSeq(Uniq(selected_library_names),
                             LAMBDA n : ~InSeq(Column(selected_df, "Library Name"), n)),
                   0)
    ELSE PrepoolFromEngine(
            compute_pool_volumes(selected_df, scaling_factor, min_volume_ul,
                                 max_volume_ul, None),
            selected_library_names, prepool_name)

create_prepool_from_selection(t, selected_library_names, prepool_name, scaling_factor, min_volume_ul, max_volume_ul) ==
    IF {"Library Name", "Adjusted lib nM", "Target Reads (M)"} \ t.columns # {}
    THEN OrchRaise("ValueError", "Missing required columns",
                   "create_prepool_from_selection", <<>>, 0)
    ELSE PrepoolFromSelected(RowsNamed(t, SeqToSet(selected_library_names)),
                             selected_library_names, prepool_name,
                             scaling_factor, min_volume_ul, max_volume_ul)

\* a variant that leaves out a pre-pool that failed and goes on
PrepoolLoopTurn_skip(r, done, rest) ==
    IF r.kind = "error" THEN rest
    ELSE IF rest.kind = "error" THEN rest
    ELSE Return(<<r.value>> \o rest.value)

\* one turn of the loop of lines 216-225: r is the outcome of the pre-pool
\* computed in this turn, rest the outcome of the turns after it
PrepoolLoopTurn(r, done, rest) ==
    IF r.kind = "error" THEN [r EXCEPT !.engine_calls = done + r.engine_calls]
    ELSE IF rest.kind = "error" THEN rest
    ELSE Return(<<r.value>> \o rest.value)

\* lines 214-225: the pre-pools are computed in list order; the first error ends
\* the loop; done is the number of pre-pools computed before ds
RECURSIVE RunPrepools(_, _, _, _, _, _)
RunPrepools(t, ds, scaling_factor, min_volume_ul, max_volume_ul, done) ==
    IF ds = <<>> THEN Return(<<>>)
    ELSE PrepoolLoopTurn(
            create_prepool_from_selection(t, Head(ds).member_library_names,
                Head(ds).prepool_name, scaling_factor, min_volume_ul, max_volume_ul),
            done,
            RunPrepools(t, Tail(ds), scaling_factor, min_volume_ul, max_volume_ul,
                        done + 1))

\* lines 234-245: one synthetic row per pre-pool result
PrepoolRow(result) ==
    [c \in {"Library Name", "Adjusted lib nM", "Target Reads (M)", "Total Volume",
            "Project ID"} |->
        CASE c = "Library Name" -> result.prepool_definition.prepool_id
          [] c = "Adjusted lib nM" -> result.calculated_nm
          [] c = "Target Reads (M)" -> result.target_reads_m
          [] c = "Total Volume" -> result.total_volume_ul
          [] c = "Project ID" -> "PrePool"]

CommonCols ==
    {"Library Name", "Adjusted lib nM", "Target Reads (M)", "Total Volume", "Project ID"}

\* remaining_df[common_cols]
Project(t, cols) ==
    [columns |-> cols,
     rows |-> [i \in DOMAIN t.rows |-> [c \in cols |-> t.rows[i][c]]]]

\* lines 245-254: the remaining libraries, then the pre-pool rows
CombinedTable(remaining_df, prepool_results) ==
    [columns |-> CommonCols,
     rows |-> (IF Len(remaining_df.rows) > 0
               THEN Project(remaining_df, CommonCols).rows ELSE <<>>)
              \o [i \in DOMAIN prepool_results |-> PrepoolRow(prepool_results[i])]]

\* lines 265-280: plan is what the PrePoolingPlan constructor returned or raised
PlanOutcome(plan, calls) ==
    IF plan.kind = "error" THEN OrchRaise(plan.exc, plan.msg, plan.at, <<>>, calls)
    ELSE plan

\* lines 256-280: final is what the engine returned or raised for the final pool
PrepoolsStep7(t, parameters, prepool_results, remaining_df, libraries_in_prepools, remaining_library_names, final) ==
    IF final.kind = "error" THEN Propagate(final, Len(prepool_results) + 1)
    ELSE PlanOutcome(
            PrePoolingPlan(prepool_results,
                           IF Len(remaining_df.rows) > 0 THEN remaining_df.rows ELSE <<>>,
                           final.value.rows,
                           Len(t.rows),
                           Cardinality(libraries_in_prepools),
                           Cardinality(remaining_library_names),
                           parameters),
            Len(prepool_results) + 1)

\* lines 232-263
PrepoolsStep5(t, parameters, prepool_results, remaining_df, libraries_in_prepools, remaining_library_names) ==
    IF Len(remaining_df.rows) > 0 /\ CommonCols \ remaining_df.columns # {}
    THEN OrchRaise("KeyError", "not in index", "combine", <<>>, Len(prepool_results))
    ELSE PrepoolsStep7(t, parameters, prepool_results, remaining_df,
            libraries_in_prepools, remaining_library_names,
            compute_pool_volumes(CombinedTable(remaining_df, prepool_results),
                parameters.scaling_factor, parameters.min_volume_ul,
                parameters.max_volume_ul, parameters.total_reads_m))

\* lines 227-232: run is the outcome of the loop over the definitions
PrepoolsStep3(t, parameters, libraries_in_prepools, remaining_library_names, run) ==
    IF run.kind = "error" THEN run
    ELSE PrepoolsStep5(t, parameters, run.value, RowsNamed(t, remaining_library_names),
                       libraries_in_prepools, remaining_library_names)

\* lines 202-230
PrepoolsStep1(t, prepool_definitions, parameters, all_prepool_libraries) ==
    IF Len(all_prepool_libraries) # Cardinality(SeqToSet(all_prepool_libraries))
    THEN OrchRaise("ValueError", "Libraries appear in multiple pre-pools",
                   "overlap", Duplicates(all_prepool_libraries), 0)
    ELSE PrepoolsStep3(t, parameters,
            SeqToSet(all_prepool_libraries),
            SeqToSet(Column(t, "Library Name")) \ SeqToSet(all_prepool_libraries),
            RunPrepools(t, prepool_definitions, parameters.scaling_factor,
                        parameters.min_volume_ul, parameters.max_volume_ul, 0))

compute_with_prepools(t, prepool_definitions, scaling_factor, min_volume_ul, max_volume_ul, total_reads_m) ==
    IF prepool_definitions = <<>>
    THEN OrchRaise("ValueError", "At least one pre-pool definition required",
                   "validate", <<>>, 0)
    ELSE IF {"Library Name", "Adjusted lib nM", "Target Reads (M)", "Total Volume"}
                \ t.columns # {}
    THEN OrchRaise("ValueError", "Missing required columns", "validate", <<>>, 0)
    ELSE PrepoolsStep1(t, prepool_definitions,
            [scaling_factor |-> scaling_factor, min_volume_ul |-> min_volume_ul,
             max_volume_ul |-> max_volume_ul, total_reads_m |-> total_reads_m],
            Flatten([i \in DOMAIN prepool_definitions |->
                        prepool_definitions[i].member_library_names]))

\* lines 308-347: the error messages, each with the names it lists
validate_prepool_definitions(t, prepool_definitions) ==
    IF prepool_definitions = <<>> THEN Return([is_valid |-> TRUE, errors |-> <<>>])
    ELSE IF "Library Name" \notin t.columns
    THEN OrchRaise("KeyError", "Library Name", "validate_prepool_definitions", <<>>, 0)
    ELSE
    LET all_libraries == SeqToSet(Column(t, "Library Name"))
        notFound(d) ==
            [i \in DOMAIN SelectSeq(d.member_library_names,
                                    LAMBDA n : n \notin all_libraries) |->
                [msg |-> "not found in data",
                 names |-> <<SelectSeq(d.member_library_names,
                                       LAMBDA n : n \notin all_libraries)[i]>>]]
        check1 == Flatten([i \in DOMAIN prepool_definitions |->
                              notFound(prepool_definitions[i])])
        all_prepool_libs ==
            Flatten([i \in DOMAIN prepool_definitions |->
                        prepool_definitions[i].member_library_names])
        check2 == IF Len(all_prepool_libs) # Cardinality(SeqToSet(all_prepool_libs))
                  THEN <<[msg |-> "Libraries appear in multiple pre-pools",
                          names |-> Duplicates(all_prepool_libs)]>>
                  ELSE <<>>
        empty == SelectSeq(prepool_definitions,
                           LAMBDA d : Len(d.member_library_names) = 0)
        check3 == [i \in DOMAIN empty |->
                     [msg |-> "has no libraries", names |-> <<empty[i].prepool_name>>]]
        prepool_ids == [i \in DOMAIN prepool_definitions |->
                           prepool_definitions[i].prepool_id]
        check4 == IF Len(prepool_ids) # Cardinality(SeqToSet(prepool_ids))
                  THEN <<[msg |-> "Duplicate pre-pool IDs",
                          names |-> Duplicates(prepool_ids)]>>
                  ELSE <<>>
        errors == check1 \o check2 \o check3 \o check4
    IN  Return([is_valid |-> Len(errors) = 0, errors |-> errors])

---------------------------------------------------------------------------
(* models.py: the hierarchical models.  An optional string is None or <<s>>. *)

\* a variant without the gt=0 constraints on the molarity and the volume
SubPoolRecordValid_anyVolume(member_libraries, calculated_nm, total_volume_ul, target_reads_m) ==
    /\ Len(member_libraries) >= 1
    /\ RGt(target_reads_m, Zero)

\* SubPoolRecord (lines 319-336): min_length=1 on the members, gt=0 on the
\* three numbers
SubPoolRecordValid(member_libraries, calculated_nm, total_volume_ul, target_reads_m) ==
    /\ Len(member_libraries) >= 1
    /\ RGt(calculated_nm, Zero)
    /\ RGt(total_volume_ul, Zero)
    /\ RGt(target_reads_m, Zero)

\* PoolingStageData (lines 362-381)
PoolingStageData(stage, stage_number, input_count, output_count, volumes_df_json, total_pipetting_steps) ==
    IF stage_number >= 1 /\ input_count > 0 /\ output_count > 0
        /\ total_pipetting_steps >= 0
    THEN Return([stage |-> stage, stage_number |-> stage_number,
                 input_count |-> input_count, output_count |-> output_count,
                 volumes_df_json |-> volumes_df_json,
                 total_pipetting_steps |-> total_pipetting_steps,
                 warnings |-> <<>>])
    ELSE Raise("ValidationError", "PoolingStageData", "PoolingStageData")

\* lines 426-442
stages_must_be_sequential(v) == \A i \in DOMAIN v : v[i].stage_number = i

\* HierarchicalPoolingPlan (lines 401-442)
HierarchicalPoolingPlan(stages, final_pool_volume_ul, total_libraries, total_subpools, grouping_method, parameters, total_pipetting_steps) ==
    IF /\ Len(stages) >= 1
       /\ stages_must_be_sequential(stages)
       /\ RGt(final_pool_volume_ul, Zero)
       /\ total_libraries > 0
       /\ total_subpools >= 0
       /\ total_pipetting_steps >= 0
    THEN Return([stages |-> stages,
                 final_pool_volume_ul |-> final_pool_volume_ul,
                 total_libraries |-> total_libraries,
                 total_subpools |-> total_subpools,
                 strategy |-> "hierarchical",
                 grouping_method |-> grouping_method,
                 parameters |-> parameters,
                 total_pipetting_steps |-> total_pipetting_steps,
                 estimated_time_minutes |-> None])
    ELSE Raise("ValidationError", "HierarchicalPoolingPlan", "HierarchicalPoolingPlan")

---------------------------------------------------------------------------
(* hierarchical.py.  A sub-pool id f"{group_name}_pool" is the tuple        *)
(* <<group_name, "_pool">> and f"{group_name}_pool_{i}" is                  *)
(* <<group_name, "_pool_", i>>.  The rows of a table carry the index labels *)
(* 0, 1, 2, ... (a RangeIndex): row i of the sequence has label i - 1.      *)

\* config.py lines 258, 261, 264
MAX_LIBRARIES_PER_POOL == 96
MIN_SUBPOOLS_FOR_HIERARCHICAL == 5
HIERARCHICAL_GROUPING_COLUMNS == <<"Project ID">>

\* df[col].nunique(): the distinct values that are present
Nunique(t, col) == Cardinality({t.rows[i][col] : i \in DOMAIN t.rows})

\* f"{col}_num_groups" and f"{col}_viable"
NumGroupsKey(col) == CASE col = "Project ID" -> "Project ID_num_groups"
ViableKey(col) == CASE col = "Project ID" -> "Project ID_viable"

\* a variant that takes every candidate column that is present
GroupingOptions_present(t, min_subpools_for_hierarchical) ==
    SelectSeq(HIERARCHICAL_GROUPING_COLUMNS, LAMBDA col : col \in t.columns)

\* lines 89-104: grouping_options
GroupingOptions(t, min_subpools_for_hierarchical) ==
    SelectSeq(HIERARCHICAL_GROUPING_COLUMNS,
              LAMBDA col : /\ col \in t.columns
                           /\ Nunique(t, col) >= min_subpools_for_hierarchical)

\* lines 91-104: the entries the loop adds to analysis
ColumnAnalysis(t, min_subpools_for_hierarchical) ==
    LET present == {HIERARCHICAL_GROUPING_COLUMNS[i] :
                        i \in {j \in DOMAIN HIERARCHICAL_GROUPING_COLUMNS :
                                HIERARCHICAL_GROUPING_COLUMNS[j] \in t.columns}}
    IN  [k \in {NumGroupsKey(col) : col \in present}
                \cup {ViableKey(col) : col \in present} |->
            IF \E col \in present : k = NumGroupsKey(col)
            THEN Nunique(t, CHOOSE col \in present : k = NumGroupsKey(col))
            ELSE Nunique(t, CHOOSE col \in present : k = ViableKey(col))
                    >= min_subpools_for_hierarchical]

\* lines 106-124: grouping_options is the list the loop built
StrategyDecision(analysis, grouping_options) ==
    IF Len(grouping_options) > 0
    THEN Return([strategy |-> "hierarchical", grouping_options |-> grouping_options,
                 analysis |-> ("reason" :> "Large experiment with natural grouping"
                               @@ "recommended" :> TRUE @@ analysis)])
    ELSE Return([strategy |-> "hierarchical", grouping_options |-> <<>>,
                 analysis |-> ("reason" :> "Large experiment requires hierarchical approach"
                               @@ "recommended" :> TRUE
                               @@ "warning" :> "No natural grouping column found"
                               @@ analysis)])

\* lines 35-124
determine_pooling_strategy(t, max_libraries_per_pool, min_subpools_for_hierarchical) ==
    IF Len(t.rows) <= max_libraries_per_pool
    THEN Return([strategy |-> "single_stage", grouping_options |-> <<>>,
                 analysis |-> ("total_libraries" :> Len(t.rows)
                               @@ "max_libraries_per_pool" :> max_libraries_per_pool
                               @@ "reason" :> "Small experiment (<=96 libraries)"
                               @@ "recommended" :> FALSE)])
    ELSE StrategyDecision(
            ColumnAnalysis(t, min_subpools_for_hierarchical)
                @@ "total_libraries" :> Len(t.rows)
                @@ "max_libraries_per_pool" :> max_libraries_per_pool,
            GroupingOptions(t, min_subpools_for_hierarchical))

\* line 135: the default of max_libraries_per_subpool
DefaultMaxLibrariesPerSubpool == 96

\* the values the grouping columns hold, in sorted (lexicographic) order
KeyOrder == <<"A", "B", "L1", "L2", "L3", "L4", "L5">>

\* line 165: groupby yields the groups in sorted key order
GroupKeys(t, grouping_column) ==
    SelectSeq(KeyOrder, LAMBDA k : k \in SeqToSet(Column(t, grouping_column)))

\* the rows of one group, by position, in table order
GroupIndex(t, grouping_column, group_name) ==
    SelectSeq([i \in DOMAIN t.rows |-> i],
              LAMBDA i : t.rows[i][grouping_column] = group_name)

\* lines 175-179: chunk_of holds group_df.index // max per row of the group;
\* the i-th distinct chunk (they ascend) gets the id numbered i, once per row
SplitIds(group_name, chunk_of) ==
    Flatten([i \in DOMAIN Uniq(chunk_of) |->
                [j \in 1..Count(chunk_of, Uniq(chunk_of)[i]) |->
                    <<group_name, "_pool_", i>>]])

\* a variant that never splits a group
GroupSubpoolIds_noSplit(group_name, index, max_libraries_per_subpool) ==
    [j \in DOMAIN index |-> <<group_name, "_pool">>]

\* lines 166-179: the ids one group appends to subpool_ids
GroupSubpoolIds(group_name, index, max_libraries_per_subpool) ==
    IF Len(index) <= max_libraries_per_subpool
    THEN [j \in DOMAIN index |-> <<group_name, "_pool">>]
    ELSE SplitIds(group_name,
                  [j \in DOMAIN index |-> (index[j] - 1) \div max_libraries_per_subpool])

\* lines 163-179: subpool_ids, group after group
SubpoolIds(t, grouping_column, max_libraries_per_subpool) ==
    Flatten([g \in DOMAIN GroupKeys(t, grouping_column) |->
                GroupSubpoolIds(GroupKeys(t, grouping_column)[g],
                                GroupIndex(t, grouping_column,
                                           GroupKeys(t, grouping_column)[g]),
                                max_libraries_per_subpool)])

\* lines 132-182; line 181 assigns the list to the rows by position
create_subpool_definitions(t, grouping_column, max_libraries_per_subpool) ==
    IF grouping_column \notin t.columns
    THEN Raise("ValueError", "Grouping column not found", "create_subpool_definitions")
    ELSE Return(WithColumn(t, "SubPool ID",
                           SubpoolIds(t, grouping_column, max_libraries_per_subpool)))

\* line 225: inner join on "Library Name", left rows in order, adding the
\* volume column of the right table
MergeFinalVolume(df_libraries, df_volumes) ==
    [columns |-> df_libraries.columns \cup {"Final Volume (ul)"},
     rows |-> Flatten([i \in DOMAIN df_libraries.rows |->
        [j \in DOMAIN SelectSeq(df_volumes.rows,
                LAMBDA r : r["Library Name"] = df_libraries.rows[i]["Library Name"]) |->
            [k \in df_libraries.columns \cup {"Final Volume (ul)"} |->
                IF k = "Final Volume (ul)"
                THEN SelectSeq(df_volumes.rows,
                        LAMBDA r : r["Library Name"]
                                     = df_libraries.rows[i]["Library Name"])[j][k]
                ELSE df_libraries.rows[i][k]]]])]

\* a variant that weighs every library by the volume of the first one
TotalNanomoles_firstVolume(merged) ==
    RSum([i \in DOMAIN merged.rows |->
            RMul(merged.rows[i]["Adjusted lib nM"], merged.rows[1]["Final Volume (ul)"])])

\* lines 232-233
TotalNanomoles(merged) ==
    RSum([i \in DOMAIN merged.rows |->
            RMul(merged.rows[i]["Adjusted lib nM"], merged.rows[i]["Final Volume (ul)"])])

\* lines 227-259
SubPoolRecord(merged, subpool_id) ==
    LET total_volume_ul == RSum(Column(merged, "Final Volume (ul)"))
        calculated_nm == IF RGt(total_volume_ul, Zero)
                         THEN RDiv(TotalNanomoles(merged), total_volume_ul) ELSE Zero
        target_reads_m == RSum(Column(merged, "Target Reads (M)"))
        member_libraries == Column(merged, "Library Name")
    IN  IF ~SubPoolRecordValid(member_libraries, calculated_nm, total_volume_ul,
                               target_reads_m)
        THEN Raise("ValidationError", "SubPoolRecord", "compute_subpool_properties")
        ELSE Return([subpool_id |-> subpool_id,
                     member_libraries |-> member_libraries,
                     calculated_nm |-> calculated_nm,
                     total_volume_ul |-> total_volume_ul,
                     target_reads_m |-> target_reads_m,
                     parent_project_id |->
                        IF "Project ID" \in merged.columns /\ Len(merged.rows) > 0
                        THEN <<merged.rows[1]["Project ID"]>> ELSE None,
                     custom_grouping |-> None])

\* lines 185-259
compute_subpool_properties(df_libraries, df_volumes, subpool_id) ==
    IF {"Library Name", "Adjusted lib nM", "Target Reads (M)"} \ df_libraries.columns # {}
    THEN Raise("ValueError", "Missing required library columns",
               "compute_subpool_properties")
    ELSE IF {"Library Name", "Final Volume (ul)"} \ df_volumes.columns # {}
    THEN Raise("ValueError", "Missing required volume columns",
               "compute_subpool_properties")
    ELSE SubPoolRecord(MergeFinalVolume(df_libraries, df_volumes), subpool_id)

\* df_with_subpools[df_with_subpools["SubPool ID"] == subpool_id]
RowsOfSubpool(t, subpool_id) ==
    [columns |-> t.columns,
     rows |-> SelectSeq(t.rows, LAMBDA r : r["SubPool ID"] = subpool_id)]

\* lines 339-345: volumes is the table the engine returned for the sub-pool,
\* already tagged with the id; record is what compute_subpool_properties
\* returned or raised
SubpoolOutcome(volumes, record) ==
    IF record.kind = "error" THEN record
    ELSE Return([volumes |-> volumes, record |-> record.value])

\* lines 330-345: r is what the engine returned or raised for the sub-pool
SubpoolFromEngine(subpool_df, subpool_id, r) ==
    IF r.kind = "error" THEN r
    ELSE SubpoolOutcome(
            WithColumn(r.value, "SubPool ID",
                       [i \in DOMAIN r.value.rows |-> subpool_id]),
            compute_subpool_properties(
                subpool_df,
                WithColumn(r.value, "SubPool ID",
                           [i \in DOMAIN r.value.rows |-> subpool_id]),
                subpool_id))

\* one turn of the loop of lines 326-345 followed by the turns after it
SubpoolLoopTurn(r, rest) ==
    IF r.kind = "error" THEN r
    ELSE IF rest.kind = "error" THEN rest
    ELSE Return(<<r.value>> \o rest.value)

\* lines 323-345: the sub-pools are computed in the order of ids; the first
\* error ends the loop
RECURSIVE RunSubpools(_, _, _, _, _)
RunSubpools(t, ids, scaling_factor, min_volume_ul, max_volume_ul) ==
    IF ids = <<>> THEN Return(<<>>)
    ELSE SubpoolLoopTurn(
            SubpoolFromEngine(
                RowsOfSubpool(t, Head(ids)), Head(ids),
                compute_pool_volumes(RowsOfSubpool(t, Head(ids)), scaling_factor,
                                     min_volume_ul, max_volume_ul, None)),
            RunSubpools(t, Tail(ids), scaling_factor, min_volume_ul, max_volume_ul))

\* lines 351-360
Stage1Data(t, subpool_records, df_stage1_volumes) ==
    PoolingStageData("library_to_subpool", 1, Len(t.rows), Len(subpool_records),
                     df_stage1_volumes, Len(t.rows))

\* a variant that counts the master pool instead of the transfers into it
Stage2Data_oneStep(subpool_records, df_stage2_volumes) ==
    PoolingStageData("subpool_to_master", 2, Len(subpool_records), 1,
                     df_stage2_volumes.rows, 1)

\* lines 389-398
Stage2Data(subpool_records, df_stage2_volumes) ==
    PoolingStageData("subpool_to_master", 2, Len(subpool_records), 1,
                     df_stage2_volumes.rows, Len(subpool_records))

\* a variant that asks the same reads of every sub-pool
SubpoolTable_equalReads(subpool_records) ==
    [columns |-> {"Library Name", "Adjusted lib nM", "Target Reads (M)", "Total Volume",
                  "Project ID"},
     rows |-> [i \in DOMAIN subpool_records |->
        [c \in {"Library Name", "Adjusted lib nM", "Target Reads (M)", "Total Volume",
                "Project ID"} |->
            CASE c = "Library Name" -> subpool_records[i].subpool_id
              [] c = "Adjusted lib nM" -> subpool_records[i].calculated_nm
              [] c = "Target Reads (M)" -> R(100)
              [] c = "Total Volume" -> subpool_records[i].total_volume_ul
              [] c = "Project ID" -> "SubPool"]]]

\* lines 365-377: the sub-pools as the libraries of the second stage
SubpoolTable(subpool_records) ==
    [columns |-> {"Library Name", "Adjusted lib nM", "Target Reads (M)", "Total Volume",
                  "Project ID"},
     rows |-> [i \in DOMAIN subpool_records |->
        [c \in {"Library Name", "Adjusted lib nM", "Target Reads (M)", "Total Volume",
                "Project ID"} |->
            CASE c = "Library Name" -> subpool_records[i].subpool_id
              [] c = "Adjusted lib nM" -> subpool_records[i].calculated_nm
              [] c = "Target Reads (M)" -> subpool_records[i].target_reads_m
              [] c = "Total Volume" -> subpool_records[i].total_volume_ul
              [] c = "Project ID" ->
                    IF subpool_records[i].parent_project_id # None
                       /\ subpool_records[i].parent_project_id # <<"">>
                    THEN subpool_records[i].parent_project_id[1] ELSE "SubPool"]]]

\* lines 400-422: stage1 and stage2 are validated PoolingStageData objects
HierPlan(t, grouping_column, final_pool_volume_ul, parameters, subpool_records, stage1, stage2) ==
    HierarchicalPoolingPlan(<<stage1, stage2>>, final_pool_volume_ul, Len(t.rows),
        Len(subpool_records), grouping_column, parameters,
        stage1.total_pipetting_steps + stage2.total_pipetting_steps)

\* lines 388-422: stage2 is what the PoolingStageData constructor returned or
\* raised
HierAfterStage2(t, grouping_column, final_pool_volume_ul, parameters, subpool_records, stage1, stage2) ==
    IF stage2.kind = "error" THEN stage2
    ELSE HierPlan(t, grouping_column, final_pool_volume_ul, parameters,
                  subpool_records, stage1, stage2.value)

\* lines 379-422: r is what the engine returned or raised for the sub-pools
HierFromStage2Volumes(t, grouping_column, final_pool_volume_ul, parameters, subpool_records, stage1, r) ==
    IF r.kind = "error" THEN r
    ELSE HierAfterStage2(t, grouping_column, final_pool_volume_ul, parameters,
                         subpool_records, stage1, Stage2Data(subpool_records, r.value))

\* a variant that scales the second stage to the final pool volume
HierStage2_scaledToVolume(t, grouping_column, final_pool_volume_ul, parameters, subpool_records, stage1) ==
    IF stage1.kind = "error" THEN stage1
    ELSE HierFromStage2Volumes(t, grouping_column, final_pool_volume_ul, parameters,
            subpool_records, stage1.value,
            compute_pool_volumes(SubpoolTable(subpool_records),
                RMul(parameters.scaling_factor, RDiv(final_pool_volume_ul, R(20))),
                parameters.min_volume_ul,
                parameters.max_volume_ul, parameters.total_reads_m))

\* lines 362-422: stage1 is what the PoolingStageData constructor returned or
\* raised
HierStage2(t, grouping_column, final_pool_volume_ul, parameters, subpool_records, stage1) ==
    IF stage1.kind = "error" THEN stage1
    ELSE HierFromStage2Volumes(t, grouping_column, final_pool_volume_ul, parameters,
            subpool_records, stage1.value,
            compute_pool_volumes(SubpoolTable(subpool_records),
                parameters.scaling_factor, parameters.min_volume_ul,
                parameters.max_volume_ul, parameters.total_reads_m))

\* lines 347-422: run is the outcome of the loop over the sub-pools; pd.concat
\* raises on an empty list
HierStage1(t, grouping_column, final_pool_volume_ul, parameters, run) ==
    IF run.kind = "error" THEN run
    ELSE IF run.value = <<>>
    THEN Raise("ValueError", "No objects to concatenate", "concat")
    ELSE HierStage2(t, grouping_column, final_pool_volume_ul, parameters,
            [i \in DOMAIN run.value |-> run.value[i].record],
            Stage1Data(t, [i \in DOMAIN run.value |-> run.value[i].record],
                       Flatten([i \in DOMAIN run.value |-> run.value[i].volumes.rows])))

\* lines 319-345: with is what create_subpool_definitions returned or raised
HierFromSubpools(t, grouping_column, final_pool_volume_ul, parameters, with) ==
    IF with.kind = "error" THEN with
    ELSE HierStage1(t, grouping_column, final_pool_volume_ul, parameters,
            RunSubpools(with.value, Uniq(Column(with.value, "SubPool ID")),
                        parameters.scaling_factor, parameters.min_volume_ul,
                        parameters.max_volume_ul))

\* lines 267-422
compute_hierarchical_pooling(t, grouping_column, scaling_factor, final_pool_volume_ul, min_volume_ul, max_volume_ul, total_reads_m) ==
    IF {"Library Name", "Adjusted lib nM", "Target Reads (M)"} \ t.columns # {}
    THEN Raise("ValueError", "Missing required columns", "compute_hierarchical_pooling")
    ELSE IF grouping_column \notin t.columns
    THEN Raise("ValueError", "Grouping column not found", "compute_hierarchical_pooling")
    ELSE HierFromSubpools(t, grouping_column, final_pool_volume_ul,
            [scaling_factor |-> scaling_factor, min_volume_ul |-> min_volume_ul,
             max_volume_ul |-> max_volume_ul, total_reads_m |-> total_reads_m],
            create_subpool_definitions(t, grouping_column, DefaultMaxLibrariesPerSubpool))

---------------------------------------------------------------------------
(* compute.py: summarize_by_project.  df.groupby yields the groups in       *)
(* sorted key order (GroupKeys); the summary has one row per group.         *)

\* a variant that sums the column over the whole table
GroupSum_all(t, col, key) == RSum(Column(t, col))

\* grouped[col].sum() for one group
GroupSum(t, col, key) ==
    RSum(Column([columns |-> t.columns,
                 rows |-> SelectSeq(t.rows, LAMBDA r : r["Project ID"] = key)], col))

\* grouped.size() for one group
GroupSize(t, key) == Len(SelectSeq(t.rows, LAMBDA r : r["Project ID"] = key))

\* lines 268-278: the summary row of one group
SummaryRow(t, key) ==
    [c \in {"Project ID", "Number of Libraries", "Total Volume (ul)", "Pool Fraction"}
           \cup ({"Expected Reads (M)"} \cap t.columns) |->
        CASE c = "Project ID" -> key
          [] c = "Number of Libraries" -> GroupSize(t, key)
          [] c = "Total Volume (ul)" ->
                IF "Stock Volume (ul)" \in t.columns
                THEN GroupSum(t, "Stock Volume (ul)", key) ELSE Zero
          [] c = "Pool Fraction" ->
                IF "Pool Fraction" \in t.columns
                THEN GroupSum(t, "Pool Fraction", key) ELSE Zero
          [] c = "Expected Reads (M)" -> GroupSum(t, "Expected Reads (M)", key)]

\* lines 248-283
summarize_by_project(t) ==
    IF "Project ID" \notin t.columns
    THEN Raise("ValueError", "Missing required column: Project ID", "summarize_by_project")
    ELSE Return([columns |-> {"Project ID", "Number of Libraries", "Total Volume (ul)",
                              "Pool Fraction"}
                             \cup ({"Expected Reads (M)"} \cap t.columns),
                 rows |-> [g \in DOMAIN GroupKeys(t, "Project ID") |->
                            SummaryRow(t, GroupKeys(t, "Project ID")[g])]])

---------------------------------------------------------------------------
(* ui.py: process_upload (lines 117-343).  The status message is the list   *)
(* of the headings and sentences it is built from, without the numbers they *)
(* embed; an output table is named by the table it displays (the display    *)
(* tables are rounded projections of those), None when the output is None.  *)

UploadOutputs(status_message, library_df, project_df, stage1_df, stage2_df, excel_bytes) ==
    [status_message |-> status_message, library_df |-> library_df,
     project_df |-> project_df, stage1_df |-> stage1_df, stage2_df |-> stage2_df,
     excel_bytes |-> excel_bytes]

\* lines 338-343: the outer handler; e is the error that was raised
UploadError(e) ==
    Return(UploadOutputs(<<"ERROR", e.msg,
                           "Please check your input file format and try again.">>,
                         None, None, None, None, None))

\* lines 160-161: value if value and value > 0 else None
PositiveOrNone(value) == IF value # None /\ RGt(value, Zero) THEN value ELSE None

\* lines 293-311: the columns the single-stage display selects
UploadDisplayCols(df_with_volumes) ==
    {"Library Name", "Project ID", "Final ng/ul", "Adjusted peak size",
     "Target Reads (M)", "Calculated nM", "Effective nM (Use)", "Stock Volume (ul)",
     "Pre-Dilute Factor", "Final Volume (ul)", "Pool Fraction", "Flags"}
    \cup ({"Expected Reads (M)"} \cap df_with_volumes.columns)

\* lines 252, 264-271, 327-335: the message of a single-stage run
SingleStageStatus(df_with_volumes) ==
    <<"SINGLE-STAGE POOLING COMPLETE">>
    \o (IF \E i \in DOMAIN df_with_volumes.rows : df_with_volumes.rows[i]["Flags"] # <<>>
        THEN <<"libraries have warnings">> ELSE <<>>)
    \o <<"Pooling plan computed successfully", "Total volume to pipette">>
    \o (IF \E i \in DOMAIN df_with_volumes.rows :
              df_with_volumes.rows[i]["Pre-Dilute Factor"] > 1
        THEN <<"libraries require pre-dilution">> ELSE <<>>)
    \o <<"Ready to download Excel file">>

\* lines 273-337: df_projects is what summarize_by_project returned or raised
UploadSingleSummary(df_with_volumes, df_projects) ==
    IF df_projects.kind = "error" THEN UploadError(df_projects)
    ELSE IF UploadDisplayCols(df_with_volumes) \ df_with_volumes.columns # {}
    THEN UploadError(Raise("KeyError", "not in index", "process_upload"))
    ELSE Return(UploadOutputs(SingleStageStatus(df_with_volumes), "df_display",
                              "df_projects_display", None, None, "excel_bytes"))

\* lines 251-337: r is what compute_pool_volumes returned or raised.  The
\* message starts anew at line 252: nothing of an earlier error_msg is kept
UploadSingleStage(r) ==
    IF r.kind = "error" THEN UploadError(r)
    ELSE UploadSingleSummary(r.value, summarize_by_project(r.value))

\* lines 180-196: the message of a hierarchical plan
HierarchicalStatus ==
    <<"HIERARCHICAL POOLING COMPLETE", "Strategy: Multi-stage pooling", "Grouping",
      "Stage 1", "Stage 2", "Total pipetting steps", "Final pool volume",
      "Ready to download hierarchical pooling plan">>

\* lines 164-257: plan is what compute_hierarchical_pooling returned or
\* raised; the handler of lines 243-248 builds error_msg, a local that is
\* never used again, and control falls through to the single-stage branch
UploadHierarchical(df_with_molarity, plan, scaling_factor, min_volume, max_vol, total_r) ==
    IF plan.kind = "ok"
    THEN Return(UploadOutputs(HierarchicalStatus, "stage1_display", None,
                              "stage1_display", "stage2_display", None))
    ELSE UploadSingleStage(compute_pool_volumes(df_with_molarity, scaling_factor,
                                                min_volume, max_vol, total_r))

\* lines 163-257
UploadBranch(df_with_molarity, strategy_choice, grouping_column, scaling_factor, min_volume, max_vol, total_r) ==
    IF strategy_choice = "hierarchical"
    THEN UploadHierarchical(df_with_molarity,
            compute_hierarchical_pooling(df_with_molarity, grouping_column,
                scaling_factor, R(20), min_volume, max_vol, total_r),
            scaling_factor, min_volume, max_vol, total_r)
    ELSE UploadSingleStage(compute_pool_volumes(df_with_molarity, scaling_factor,
                                                min_volume, max_vol, total_r))

\* lines 150-161: molarity is what compute_effective_molarity returned or raised
UploadFromMolarity(molarity, strategy_choice, grouping_column, scaling_factor, min_volume, max_volume, total_reads) ==
    IF molarity.kind = "error" THEN UploadError(molarity)
    ELSE IF RLe(scaling_factor, Zero)
    THEN Return(UploadOutputs(<<"Error: Scaling factor must be > 0">>,
                              None, None, None, None, None))
    ELSE IF RLt(min_volume, Zero)
    THEN Return(UploadOutputs(<<"Error: Minimum volume must be >= 0">>,
                              None, None, None, None, None))
    ELSE IF max_volume # None /\ RLt(max_volume, Zero)
    THEN Return(UploadOutputs(<<"Error: Maximum volume must be >= 0">>,
                              None, None, None, None, None))
    ELSE UploadBranch(molarity.value, strategy_choice, grouping_column, scaling_factor,
                      min_volume, PositiveOrNone(max_volume), PositiveOrNone(total_reads))

\* lines 117-343
process_upload(file_obj, strategy_choice, grouping_column, scaling_factor, min_volume, max_volume, total_reads, validated_df) ==
    IF file_obj = None \/ validated_df = None
    THEN Return(UploadOutputs(<<"Please upload a file and analyze it first.">>,
                              None, None, None, None, None))
    ELSE UploadFromMolarity(compute_effective_molarity(validated_df), strategy_choice,
                            grouping_column, scaling_factor, min_volume, max_volume,
                            total_reads)

---------------------------------------------------------------------------
(* Inputs of the single-stage engine *)

MolarityValues == {R(10), R(20)}
ReadsValues == {R(20), R(50), R(159)}
AvailableValues == {R(1), R(30)}
LibraryNames == <<"L1", "L2", "L3", "L4", "L5">>

EngineRow(i, nm, reads, avail) ==
    [c \in {"Library Name", "Adjusted lib nM", "Target Reads (M)", "Total Volume"} |->
        CASE c = "Library Name" -> LibraryNames[i]
          [] c = "Adjusted lib nM" -> nm
          [] c = "Target Reads (M)" -> reads
          [] c = "Total Volume" -> avail]

EngineRows(i) ==
    {EngineRow(i, nm, reads, avail) :
        nm \in MolarityValues, reads \in ReadsValues, avail \in AvailableValues}

FullEngineColumns == {"Library Name", "Adjusted lib nM", "Target Reads (M)", "Total Volume"}

\* all tables of 1..MaxLibs libraries with every column
FullEngineTables ==
    UNION {
        {[columns |-> FullEngineColumns, rows |-> rs] :
            rs \in {s \in [1..n -> UNION {EngineRows(i) : i \in 1..n}] :
                        \A i \in 1..n : s[i] \in EngineRows(i)}}
        : n \in 1..MaxLibs}

DropColumn(t, c) ==
    [columns |-> t.columns \ {c},
     rows |-> [i \in DOMAIN t.rows |->
                 [k \in (DOMAIN t.rows[i]) \ {c} |-> t.rows[i][k]]]]

DroppableColumns == {"Total Volume", "Adjusted lib nM", "Target Reads (M)"}

EngineTables ==
    FullEngineTables \cup
    {DropColumn(t, c) : t \in FullEngineTables, c \in DroppableColumns}

ScalingFactors == {Rat(1, 10), One, Zero, Rat(-1, 10)}
MinVolumes == {Rat(1, 1000), Rat(5, 4), R(-1)}
MaxVolumes == {None, R(2), R(-1)}
TotalReads == {None, R(100)}

---------------------------------------------------------------------------
(* The single-stage engine called on a table *)

Init ==
    /\ df \in EngineTables
    /\ defs = <<>>
    /\ call = [op |-> "none"]
    /\ pc = "start"
    /\ ret = NoRet
    /\ validation = None

\* df = df.copy() (line 149): the call works on its own copy
ComputePoolVolumes ==
    /\ pc = "start"
    /\ \E sf \in ScalingFactors, mn \in MinVolumes, mx \in MaxVolumes, tr \in TotalReads :
        /\ call' = [op |-> "compute_pool_volumes", df |-> df, scaling_factor |-> sf,
                    min_volume_ul |-> mn, max_volume_ul |-> mx, total_reads_m |-> tr]
        /\ ret' = compute_pool_volumes(df, sf, mn, mx, tr)
    /\ df' = df
    /\ pc' = "done"
    /\ UNCHANGED <<defs, validation>>

Next == ComputePoolVolumes

Spec == Init /\ [][Next]_vars

---------------------------------------------------------------------------
(* Inputs of the pre-pooling orchestrator *)

PrepoolColumns ==
    {"Library Name", "Adjusted lib nM", "Target Reads (M)", "Total Volume", "Project ID"}

PrepoolRow1(i) ==
    [c \in PrepoolColumns |->
        CASE c = "Library Name" -> LibraryNames[i]
          [] c = "Adjusted lib nM" -> R(10)
          [] c = "Target Reads (M)" -> R(20)
          [] c = "Total Volume" -> R(30)
          [] c = "Project ID" -> "A"]

PrepoolRow2(i) ==
    [c \in PrepoolColumns |->
        CASE c = "Library Name" -> LibraryNames[i]
          [] c = "Adjusted lib nM" -> R(20)
          [] c = "Target Reads (M)" -> R(50)
          [] c = "Total Volume" -> R(30)
          [] c = "Project ID" -> "B"]

\* tables of 1..MaxPrepoolLibs libraries with unique names
FullPrepoolTables ==
    UNION {
        {[columns |-> PrepoolColumns, rows |-> rs] :
            rs \in {s \in [1..n -> UNION {{PrepoolRow1(i), PrepoolRow2(i)} : i \in 1..n}] :
                        \A i \in 1..n : s[i] \in {PrepoolRow1(i), PrepoolRow2(i)}}}
        : n \in 1..MaxPrepoolLibs}

PrepoolTables ==
    FullPrepoolTables \cup
    {DropColumn(t, c) :
        t \in {u \in FullPrepoolTables : \A i \in DOMAIN u.rows : u.rows[i] = PrepoolRow1(i)},
        c \in {"Total Volume", "Project ID"}}

MemberLists ==
    {<<"L1">>, <<"L2">>, <<"L3">>, <<"L1", "L2">>, <<"L1", "L3">>, <<"L2", "L3">>}

\* PrePoolDefinition objects: every one satisfies PrePoolDefinitionValid
PrePoolDefinitions ==
    {[prepool_id |-> "prepool_1", prepool_name |-> "Prepool 1", member_library_names |-> m] :
        m \in MemberLists}
    \cup
    {[prepool_id |-> "pp2", prepool_name |-> "Prepool 2", member_library_names |-> m] :
        m \in MemberLists}

DefLists == UNION {[1..n -> PrePoolDefinitions] : n \in 0..MaxDefs}

PrepoolScalingFactors == {Rat(1, 10), Zero}

InitPrePool ==
    /\ df \in PrepoolTables
    /\ defs \in DefLists
    /\ call = [op |-> "none"]
    /\ pc = "start"
    /\ ret = NoRet
    /\ validation = None

\* the table is filtered into copies (lines 78, 232); the list is only read
ComputeWithPrepools ==
    /\ pc = "start"
    /\ \E sf \in PrepoolScalingFactors :
        /\ call' = [op |-> "compute_with_prepools", df |-> df, defs |-> defs,
                    scaling_factor |-> sf, min_volume_ul |-> Rat(1, 1000),
                    max_volume_ul |-> None, total_reads_m |-> R(100)]
        /\ ret' = compute_with_prepools(df, defs, sf, Rat(1, 1000), None, R(100))
    /\ pc' = "done"
    /\ UNCHANGED <<df, defs, validation>>

ValidatePrepoolDefinitions ==
    /\ pc = "start"
    /\ call' = [op |-> "validate_prepool_definitions", df |-> df, defs |-> defs]
    /\ ret' = validate_prepool_definitions(df, defs)
    /\ pc' = "done"
    /\ UNCHANGED <<df, defs, validation>>

\* PrePoolingPlan(...) built directly from three counts; the counts are all the
\* validators read, so it is explored from the states that hold no definitions
ConstructPrePoolingPlan ==
    /\ pc = "start"
    /\ defs = <<>>
    /\ \E total \in 0..MaxCount, inp \in 0..MaxCount, st \in 0..MaxCount :
        /\ call' = [op |-> "PrePoolingPlan", total_libraries |-> total,
                    libraries_in_prepools |-> inp, standalone_libraries |-> st]
        /\ ret' = PrePoolingPlan(<<>>, <<>>, <<>>, total, inp, st, EmptyData)
    /\ pc' = "done"
    /\ UNCHANGED <<df, defs, validation>>

\* create_prepool_from_selection called for one definition, as line 217 calls
\* it, from the states that hold exactly one; the table is filtered into a
\* copy (line 78)
CreatePrepoolFromSelection ==
    /\ pc = "start"
    /\ Len(defs) = 1
    /\ \E sf \in PrepoolScalingFactors :
        /\ call' = [op |-> "create_prepool_from_selection", df |-> df,
                    selected_library_names |-> defs[1].member_library_names,
                    prepool_name |-> defs[1].prepool_name,
                    scaling_factor |-> sf, min_volume_ul |-> Rat(1, 1000),
                    max_volume_ul |-> None]
        /\ ret' = create_prepool_from_selection(df, defs[1].member_library_names,
                        defs[1].prepool_name, sf, Rat(1, 1000), None)
    /\ pc' = "done"
    /\ UNCHANGED <<df, defs, validation>>

NextPrePool ==
    \/ ComputeWithPrepools
    \/ ValidatePrepoolDefinitions
    \/ ConstructPrePoolingPlan
    \/ CreatePrepoolFromSelection

SpecPrePool == InitPrePool /\ [][NextPrePool]_vars

---------------------------------------------------------------------------
(* Inputs of the hierarchical orchestrator *)

HierColumns == {"Library Name", "Adjusted lib nM", "Target Reads (M)", "Project ID"}

ProjectIds == {"A", "B"}

HierRow(i, nm, reads, project) ==
    [c \in HierColumns |->
        CASE c = "Library Name" -> LibraryNames[i]
          [] c = "Adjusted lib nM" -> nm
          [] c = "Target Reads (M)" -> reads
          [] c = "Project ID" -> project]

HierRows(i) ==
    {HierRow(i, nm, reads, project) :
        nm \in MolarityValues, reads \in {R(20), R(50)}, project \in ProjectIds}

\* tables of 0..MaxHierLibs libraries with unique names
FullHierTables ==
    UNION {
        {[columns |-> HierColumns, rows |-> rs] :
            rs \in {s \in [1..n -> UNION {HierRows(i) : i \in 1..n}] :
                        \A i \in 1..n : s[i] \in HierRows(i)}}
        : n \in 0..MaxHierLibs}

\* and the tables of project "A" libraries of 10 nM and 20 M reads with a
\* column missing
HierTables ==
    FullHierTables \cup
    {DropColumn(t, c) :
        t \in {u \in FullHierTables :
                \A i \in DOMAIN u.rows : u.rows[i] = HierRow(i, R(10), R(20), "A")},
        c \in {"Project ID", "Target Reads (M)"}}

GroupingColumns == {"Project ID", "Library Name"}

FinalPoolVolumes == {R(20), Zero}

SubpoolCapacities == {1, 2, DefaultMaxLibrariesPerSubpool}

InitHier ==
    /\ df \in HierTables
    /\ defs = <<>>
    /\ call = [op |-> "none"]
    /\ pc = "start"
    /\ ret = NoRet
    /\ validation = None

ComputeHierarchicalPooling ==
    /\ pc = "start"
    /\ \E grouping_column \in GroupingColumns, scaling_factor \in PrepoolScalingFactors,
          final_pool_volume_ul \in FinalPoolVolumes, max_volume_ul \in {None, R(2)},
          total_reads_m \in TotalReads :
        /\ call' = [op |-> "compute_hierarchical_pooling", df |-> df,
                    grouping_column |-> grouping_column,
                    scaling_factor |-> scaling_factor,
                    final_pool_volume_ul |-> final_pool_volume_ul,
                    min_volume_ul |-> Rat(1, 1000),
                    max_volume_ul |-> max_volume_ul,
                    total_reads_m |-> total_reads_m]
        /\ ret' = compute_hierarchical_pooling(df, grouping_column, scaling_factor,
                        final_pool_volume_ul, Rat(1, 1000), max_volume_ul, total_reads_m)
    /\ pc' = "done"
    /\ UNCHANGED <<df, defs, validation>>

\* a variant without the copy of line 162: the column is written into the
\* caller's table
CreateSubpoolDefinitions_inPlace ==
    /\ pc = "start"
    /\ \E grouping_column \in GroupingColumns,
          max_libraries_per_subpool \in SubpoolCapacities :
        /\ call' = [op |-> "create_subpool_definitions", df |-> df,
                    grouping_column |-> grouping_column,
                    max_libraries_per_subpool |-> max_libraries_per_subpool]
        /\ ret' = create_subpool_definitions(df, grouping_column,
                                             max_libraries_per_subpool)
        /\ df' = IF grouping_column \in df.columns
                 THEN create_subpool_definitions(df, grouping_column,
                                                 max_libraries_per_subpool).value
                 ELSE df
    /\ pc' = "done"
    /\ UNCHANGED <<defs, validation>>

\* df = df.copy() (line 162): the call works on its own copy
CreateSubpoolDefinitions ==
    /\ pc = "start"
    /\ \E grouping_column \in GroupingColumns,
          max_libraries_per_subpool \in SubpoolCapacities :
        /\ call' = [op |-> "create_subpool_definitions", df |-> df,
                    grouping_column |-> grouping_column,
                    max_libraries_per_subpool |-> max_libraries_per_subpool]
        /\ ret' = create_subpool_definitions(df, grouping_column,
                                             max_libraries_per_subpool)
    /\ pc' = "done"
    /\ UNCHANGED <<df, defs, validation>>

NextHier ==
    \/ ComputeHierarchicalPooling
    \/ CreateSubpoolDefinitions

SpecHier == InitHier /\ [][NextHier]_vars

---------------------------------------------------------------------------
(* compute_subpool_properties called on a library table and a volume table *)

\* the libraries of one sub-pool: project "A", 20 M reads each
SubpoolLibraryTables ==
    {t \in HierTables :
        \A i \in DOMAIN t.rows :
            /\ "Project ID" \in t.columns => t.rows[i]["Project ID"] = "A"
            /\ "Target Reads (M)" \in t.columns => t.rows[i]["Target Reads (M)"] = R(20)}

\* the final volume a library has in df_volumes; None: df_volumes has no row
\* for the library
FinalVolumeChoices == {None, Zero, R(2), R(6), R(-2)}

\* df_volumes: one row per library that has a volume, in library order
VolumesTable(t, vols) ==
    [columns |-> {"Library Name", "Final Volume (ul)"},
     rows |-> [k \in DOMAIN SelectSeq([i \in DOMAIN t.rows |-> i],
                                      LAMBDA i : vols[i] # None) |->
        [c \in {"Library Name", "Final Volume (ul)"} |->
            IF c = "Library Name"
            THEN t.rows[SelectSeq([i \in DOMAIN t.rows |-> i],
                                  LAMBDA i : vols[i] # None)[k]]["Library Name"]
            ELSE vols[SelectSeq([i \in DOMAIN t.rows |-> i],
                                LAMBDA i : vols[i] # None)[k]]]]]

InitSubpool ==
    /\ df \in SubpoolLibraryTables
    /\ defs = <<>>
    /\ call = [op |-> "none"]
    /\ pc = "start"
    /\ ret = NoRet
    /\ validation = None

ComputeSubpoolProperties ==
    /\ pc = "start"
    /\ \E vols \in [DOMAIN df.rows -> FinalVolumeChoices] :
        /\ call' = [op |-> "compute_subpool_properties", df_libraries |-> df,
                    df_volumes |-> VolumesTable(df, vols),
                    subpool_id |-> <<"A", "_pool">>]
        /\ ret' = compute_subpool_properties(df, VolumesTable(df, vols),
                                             <<"A", "_pool">>)
    /\ pc' = "done"
    /\ UNCHANGED <<df, defs, validation>>

NextSubpool == ComputeSubpoolProperties

SpecSubpool == InitSubpool /\ [][NextSubpool]_vars

---------------------------------------------------------------------------
(* Molarity: the conversion alone, and a table taken through                *)
(* compute_effective_molarity and then compute_pool_volumes (ui.py 150-254) *)

ConcentrationValues == {R(33), R(66), Zero, R(-33)}
FragmentSizes == {R(500), R(250), Zero, R(-250)}
EmpiricalValues == {None, Zero, R(-5), R(50)}

MolarityColumns ==
    {"Library Name", "Final ng/ul", "Adjusted peak size", "Empirical Library nM",
     "Target Reads (M)"}

MolarityRow(i, conc, size, empirical) ==
    [c \in MolarityColumns |->
        CASE c = "Library Name" -> LibraryNames[i]
          [] c = "Final ng/ul" -> conc
          [] c = "Adjusted peak size" -> size
          [] c = "Empirical Library nM" -> empirical
          [] c = "Target Reads (M)" -> R(20)]

MolarityRows(i) ==
    {MolarityRow(i, conc, size, empirical) :
        conc \in {R(33), Zero}, size \in {R(500), R(250)}, empirical \in EmpiricalValues}

FullMolarityTables ==
    UNION {
        {[columns |-> MolarityColumns, rows |-> rs] :
            rs \in {s \in [1..n -> UNION {MolarityRows(i) : i \in 1..n}] :
                        \A i \in 1..n : s[i] \in MolarityRows(i)}}
        : n \in 1..MaxLibs}

\* and the tables without an empirical column or without a fragment size
MolarityTables ==
    FullMolarityTables \cup
    {DropColumn(t, c) :
        t \in {u \in FullMolarityTables :
                \A i \in DOMAIN u.rows : u.rows[i]["Empirical Library nM"] = None},
        c \in {"Empirical Library nM", "Adjusted peak size"}}

InitMolarity ==
    /\ df \in MolarityTables
    /\ defs = <<>>
    /\ call = [op |-> "none"]
    /\ pc = "start"
    /\ ret = NoRet
    /\ validation = None

ComputeMolarityFromConcentration ==
    /\ pc = "start"
    /\ \E concentration_ng_ul \in ConcentrationValues, fragment_size_bp \in FragmentSizes :
        /\ call' = [op |-> "compute_molarity_from_concentration",
                    concentration_ng_ul |-> concentration_ng_ul,
                    fragment_size_bp |-> fragment_size_bp]
        /\ ret' = compute_molarity_from_concentration(concentration_ng_ul,
                                                      fragment_size_bp)
    /\ pc' = "done"
    /\ UNCHANGED <<df, defs, validation>>

ComputeEffectiveMolarity ==
    /\ pc = "start"
    /\ call' = [op |-> "compute_effective_molarity", df |-> df]
    /\ ret' = compute_effective_molarity(df)
    /\ pc' = "molarity"
    /\ UNCHANGED <<df, defs, validation>>

\* the table compute_effective_molarity returned is handed to the engine
PoolWithEffectiveMolarity ==
    /\ pc = "molarity"
    /\ ret.kind = "ok"
    /\ call' = [op |-> "compute_pool_volumes", df |-> ret.value,
                scaling_factor |-> Rat(1, 10), min_volume_ul |-> Rat(1, 1000),
                max_volume_ul |-> None, total_reads_m |-> None]
    /\ ret' = compute_pool_volumes(ret.value, Rat(1, 10), Rat(1, 1000), None, None)
    /\ pc' = "done"
    /\ UNCHANGED <<df, defs, validation>>

NextMolarity ==
    \/ ComputeMolarityFromConcentration
    \/ ComputeEffectiveMolarity
    \/ PoolWithEffectiveMolarity

SpecMolarity == InitMolarity /\ [][NextMolarity]_vars

---------------------------------------------------------------------------
(* determine_pooling_strategy called on a table *)

\* a plate-sized table: n libraries numbered 1..n spread over k projects
\* numbered 0..k-1
PlateTable(n, k) ==
    [columns |-> {"Library Name", "Project ID"},
     rows |-> [i \in 1..n |->
                [c \in {"Library Name", "Project ID"} |->
                    IF c = "Library Name" THEN i ELSE i % k]]]

\* the small tables of 10 nM libraries with 20 M reads, and tables of one
\* plate and of one library more than a plate
StrategyTables ==
    {t \in HierTables :
        \A i \in DOMAIN t.rows :
            /\ t.rows[i]["Adjusted lib nM"] = R(10)
            /\ "Target Reads (M)" \in t.columns => t.rows[i]["Target Reads (M)"] = R(20)}
    \cup
    {PlateTable(n, k) :
        n \in {MAX_LIBRARIES_PER_POOL, MAX_LIBRARIES_PER_POOL + 1},
        k \in {1, MIN_SUBPOOLS_FOR_HIERARCHICAL - 1, MIN_SUBPOOLS_FOR_HIERARCHICAL}}
    \cup
    {DropColumn(PlateTable(n, 1), "Project ID") :
        n \in {MAX_LIBRARIES_PER_POOL, MAX_LIBRARIES_PER_POOL + 1}}

PoolCapacities == {1, 2, MAX_LIBRARIES_PER_POOL}

MinSubpoolCounts == {1, 2, MIN_SUBPOOLS_FOR_HIERARCHICAL}

InitStrategy ==
    /\ df \in StrategyTables
    /\ defs = <<>>
    /\ call = [op |-> "none"]
    /\ pc = "start"
    /\ ret = NoRet
    /\ validation = None

DeterminePoolingStrategy ==
    /\ pc = "start"
    /\ \E max_libraries_per_pool \in PoolCapacities,
          min_subpools_for_hierarchical \in MinSubpoolCounts :
        /\ call' = [op |-> "determine_pooling_strategy", df |-> df,
                    max_libraries_per_pool |-> max_libraries_per_pool,
                    min_subpools_for_hierarchical |-> min_subpools_for_hierarchical]
        /\ ret' = determine_pooling_strategy(df, max_libraries_per_pool,
                                             min_subpools_for_hierarchical)
    /\ pc' = "done"
    /\ UNCHANGED <<df, defs, validation>>

NextStrategy == DeterminePoolingStrategy

SpecStrategy == InitStrategy /\ [][NextStrategy]_vars

---------------------------------------------------------------------------
(* A table pooled by the engine and then summarised by project (ui.py       *)
(* 251-269), or summarised as it is                                         *)

SummaryTables == {t \in HierTables : Len(t.rows) >= 1}

InitSummary ==
    /\ df \in SummaryTables
    /\ defs = <<>>
    /\ call = [op |-> "none"]
    /\ pc = "start"
    /\ ret = NoRet
    /\ validation = None

PoolForSummary ==
    /\ pc = "start"
    /\ \E total_reads_m \in TotalReads :
        /\ call' = [op |-> "compute_pool_volumes", df |-> df,
                    scaling_factor |-> Rat(1, 10), min_volume_ul |-> Rat(1, 1000),
                    max_volume_ul |-> None, total_reads_m |-> total_reads_m]
        /\ ret' = compute_pool_volumes(df, Rat(1, 10), Rat(1, 1000), None, total_reads_m)
    /\ pc' = "pooled"
    /\ UNCHANGED <<df, defs, validation>>

\* the table the engine returned is summarised
SummarizePooled ==
    /\ pc = "pooled"
    /\ ret.kind = "ok"
    /\ call' = [op |-> "summarize_by_project", df |-> ret.value]
    /\ ret' = summarize_by_project(ret.value)
    /\ pc' = "done"
    /\ UNCHANGED <<df, defs, validation>>

\* a table without the engine's columns is summarised
SummarizeInput ==
    /\ pc = "start"
    /\ call' = [op |-> "summarize_by_project", df |-> df]
    /\ ret' = summarize_by_project(df)
    /\ pc' = "done"
    /\ UNCHANGED <<df, defs, validation>>

NextSummary ==
    \/ PoolForSummary
    \/ SummarizePooled
    \/ SummarizeInput

SpecSummary == InitSummary /\ [][NextSummary]_vars

---------------------------------------------------------------------------
(* A ValidationResult created valid and then sent add_error, add_warning   *)
(* and has_errors in any order, MaxMessages messages at most               *)

Messages == {"m1", "m2"}

InitValidation ==
    /\ df = [columns |-> {}, rows |-> <<>>]
    /\ defs = <<>>
    /\ call = [op |-> "ValidationResult", is_valid |-> TRUE]
    /\ pc = "done"
    /\ ret = NoRet
    /\ validation = ValidationResult(TRUE, <<>>, <<>>)

AddError ==
    /\ Len(validation.errors) + Len(validation.warnings) < MaxMessages
    /\ \E message \in Messages :
        /\ call' = [op |-> "add_error", message |-> message]
        /\ validation' = add_error(validation, message)
    /\ ret' = Return(None)
    /\ UNCHANGED <<df, defs, pc>>

AddWarning ==
    /\ Len(validation.errors) + Len(validation.warnings) < MaxMessages
    /\ \E message \in Messages :
        /\ call' = [op |-> "add_warning", message |-> message]
        /\ validation' = add_warning(validation, message)
    /\ ret' = Return(None)
    /\ UNCHANGED <<df, defs, pc>>

HasErrors ==
    /\ call' = [op |-> "has_errors"]
    /\ ret' = Return(has_errors(validation))
    /\ UNCHANGED <<df, defs, pc, validation>>

NextValidation ==
    \/ AddError
    \/ AddWarning
    \/ HasErrors

SpecValidation == InitValidation /\ [][NextValidation]_vars

---------------------------------------------------------------------------
(* create_subpool_definitions alone, over tables of up to MaxSplitLibs     *)
(* libraries that differ in their Project ID only, in any row order        *)

SplitTables ==
    UNION {
        {[columns |-> HierColumns,
          rows |-> [i \in 1..n |-> HierRow(i, R(10), R(20), projects[i])]] :
            projects \in [1..n -> ProjectIds]}
        : n \in 0..MaxSplitLibs}

InitSplit ==
    /\ df \in SplitTables
    /\ defs = <<>>
    /\ call = [op |-> "none"]
    /\ pc = "start"
    /\ ret = NoRet
    /\ validation = None

NextSplit == CreateSubpoolDefinitions

SpecSplit == InitSplit /\ [][NextSplit]_vars

---------------------------------------------------------------------------
(* The core operations side by side, each called on the tables and          *)
(* definition lists of its own exploration above                            *)

InitFrame == Init \/ InitPrePool \/ InitHier \/ InitMolarity

NextFrame ==
    \/ df \in EngineTables /\ defs = <<>> /\ ComputePoolVolumes
    \/ df \in MolarityTables /\ defs = <<>> /\ ComputeEffectiveMolarity
    \/ df \in SummaryTables /\ defs = <<>> /\ SummarizeInput
    \/ df \in HierTables /\ defs = <<>> /\ CreateSubpoolDefinitions
    \/ df \in SubpoolLibraryTables /\ defs = <<>> /\ ComputeSubpoolProperties
    \/ df \in HierTables /\ defs = <<>> /\ ComputeHierarchicalPooling
    \/ df \in PrepoolTables /\ CreatePrepoolFromSelection
    \/ df \in PrepoolTables /\ ComputeWithPrepools

SpecFrame == InitFrame /\ [][NextFrame]_vars

---------------------------------------------------------------------------
(* process_upload called on a validated table of up to MaxLibs libraries   *)

UploadColumns ==
    {"Library Name", "Project ID", "Final ng/ul", "Adjusted peak size",
     "Target Reads (M)"}

UploadRow(i, project, reads) ==
    [c \in UploadColumns |->
        CASE c = "Library Name" -> LibraryNames[i]
          [] c = "Project ID" -> project
          [] c = "Final ng/ul" -> R(33)
          [] c = "Adjusted peak size" -> R(500)
          [] c = "Target Reads (M)" -> reads]

UploadTables ==
    UNION {
        {[columns |-> UploadColumns,
          rows |-> [i \in 1..n |-> UploadRow(i, projects[i], reads[i])]] :
            projects \in [1..n -> ProjectIds], reads \in [1..n -> {R(20), R(159)}]}
        : n \in 1..MaxLibs}

\* the grouping columns the caller may name: one the table has, one it lacks
UploadGroupingColumns == {"Project ID", "Sample Type"}

InitUpload ==
    /\ df \in UploadTables
    /\ defs = <<>>
    /\ call = [op |-> "none"]
    /\ pc = "start"
    /\ ret = NoRet
    /\ validation = None

\* validated_df.copy() (line 147): the call works on its own copy
ProcessUpload ==
    /\ pc = "start"
    /\ \E file_obj \in {None, <<"plan.xlsx">>},
          strategy_choice \in {"single_stage", "hierarchical"},
          grouping_column \in UploadGroupingColumns,
          scaling_factor \in {Rat(1, 10), Zero},
          max_volume \in {None, Zero, R(2)},
          total_reads \in TotalReads :
        /\ call' = [op |-> "process_upload", file_obj |-> file_obj,
                    strategy_choice |-> strategy_choice,
                    grouping_column |-> grouping_column,
                    scaling_factor |-> scaling_factor,
                    min_volume |-> Rat(1, 1000), max_volume |-> max_volume,
                    total_reads |-> total_reads, validated_df |-> df]
        /\ ret' = process_upload(file_obj, strategy_choice, grouping_column,
                                 scaling_factor, Rat(1, 1000), max_volume,
                                 total_reads, df)
    /\ pc' = "done"
    /\ UNCHANGED <<df, defs, validation>>

NextUpload == ProcessUpload

SpecUpload == InitUpload /\ [][NextUpload]_vars

---------------------------------------------------------------------------
(* The two multi-stage orchestrators side by side *)

InitMultiStage == InitPrePool \/ InitHier

\* the hierarchical workflow takes no definitions: it is explored from the
\* states that hold none
HierarchicalWithoutDefinitions ==
    /\ defs = <<>>
    /\ ComputeHierarchicalPooling

NextMultiStage ==
    \/ ComputeWithPrepools
    \/ HierarchicalWithoutDefinitions

SpecMultiStage == InitMultiStage /\ [][NextMultiStage]_vars

---------------------------------------------------------------------------
(* Claims about the single-stage engine, checked under Spec *)

EngineDone == pc = "done" /\ call.op = "compute_pool_volumes"
EngineOk == EngineDone /\ ret.kind = "ok"

\* the validity conditions of lines 157-169, stated on the arguments as passed
InvalidEngineCall ==
    \/ RLe(call.scaling_factor, Zero)
    \/ RLt(call.min_volume_ul, Zero)
    \/ (call.max_volume_ul # None /\ RLt(call.max_volume_ul, Zero))
    \/ "Adjusted lib nM" \notin call.df.columns
    \/ "Target Reads (M)" \notin call.df.columns

\* C1: in every call over a non-empty set of libraries with positive
\* molarity, target reads and scaling factor, the pool fractions of the
\* libraries of that call sum to exactly 1 and each lies in [0, 1].
C1_PoolFractionsSumToOne ==
    EngineOk =>
        LET f == Column(ret.value, "Pool Fraction")
        IN  /\ RSum(f) = One
            /\ \A i \in DOMAIN f : RLe(Zero, f[i]) /\ RLe(f[i], One)

\* a call of two libraries of different molarity and different fractions
C1_Witness ==
    /\ EngineOk
    /\ Len(ret.value.rows) = 2
    /\ ret.value.rows[1]["Adjusted lib nM"] # ret.value.rows[2]["Adjusted lib nM"]
    /\ ret.value.rows[1]["Pool Fraction"] # ret.value.rows[2]["Pool Fraction"]

C3_PreDilutionFactor ==
    EngineOk =>
        \A i \in DOMAIN ret.value.rows :
            LET row == ret.value.rows[i]
                stock == row["Stock Volume (ul)"]
                factor == row["Pre-Dilute Factor"]
            IN  /\ factor \in {1, 5, 10}
                /\ (factor = 10) <=> RLt(stock, Rat(2, 10))
                /\ (factor = 5) <=> (RLe(Rat(2, 10), stock) /\ RLt(stock, Rat(795, 1000)))
                /\ (factor = 1) <=> RLe(Rat(795, 1000), stock)
                /\ row["Final Volume (ul)"] = RMul(stock, R(factor))

\* one library exactly at 0.2 (factor 5), one exactly at 0.795 (factor 1)
C3_Witness ==
    /\ EngineOk
    /\ \E i, j \in DOMAIN ret.value.rows :
        /\ ret.value.rows[i]["Stock Volume (ul)"] = Rat(1, 5)
        /\ ret.value.rows[i]["Pre-Dilute Factor"] = 5
        /\ ret.value.rows[j]["Stock Volume (ul)"] = Rat(159, 200)
        /\ ret.value.rows[j]["Pre-Dilute Factor"] = 1

\* the messages of a flag text (its odd positions) and their fixed order
FlagRank(m) ==
    CASE m = "Insufficient volume" -> 1
      [] m \in {"Pre-dilute 10x recommended", "Pre-dilute 5x recommended"} -> 2
      [] m = "Below minimum pipettable volume" -> 3
      [] m = "Exceeds maximum volume" -> 4
      [] OTHER -> 0

HasFlag(text, rank) ==
    \E k \in DOMAIN text : k % 2 = 1 /\ FlagRank(text[k]) = rank

\* C4: the flag text of a library holds exactly the flags whose conditions
\* hold, each evaluated on its own, in the order insufficient volume,
\* pre-dilution recommended, below minimum, exceeds maximum, joined by "; ";
\* a library with no condition true has an empty flag text.
C4_FlagText ==
    EngineOk =>
        \A i \in DOMAIN ret.value.rows :
            LET row == ret.value.rows[i]
                text == row["Flags"]
                final == row["Final Volume (ul)"]
                factor == row["Pre-Dilute Factor"]
                insufficient == /\ "Total Volume" \in call.df.columns
                                /\ RGt(final, call.df.rows[i]["Total Volume"])
                predilute == factor > 1
                below == RLt(final, call.min_volume_ul)
                exceeds == call.max_volume_ul # None /\ RGt(final, call.max_volume_ul)
            IN  /\ HasFlag(text, 1) <=> insufficient
                /\ HasFlag(text, 2) <=> predilute
                /\ HasFlag(text, 3) <=> below
                /\ HasFlag(text, 4) <=> exceeds
                /\ predilute =>
                     \E k \in DOMAIN text : text[k] = PreDiluteMessage(factor)
                /\ \A k \in DOMAIN text :
                     IF k % 2 = 0 THEN text[k] = "; " /\ k < Len(text)
                     ELSE /\ FlagRank(text[k]) > 0
                          /\ k + 2 <= Len(text) => FlagRank(text[k]) < FlagRank(text[k + 2])
                /\ (~insufficient /\ ~predilute /\ ~below /\ ~exceeds) => text = <<>>

\* a library carrying three flags at once, beside a library carrying none
C4_Witness ==
    /\ EngineOk
    /\ \E i, j \in DOMAIN ret.value.rows :
        /\ ret.value.rows[i]["Flags"] =
             <<"Insufficient volume", "; ", "Pre-dilute 5x recommended", "; ",
               "Exceeds maximum volume">>
        /\ ret.value.rows[j]["Flags"] = <<>>

C6_FailFast ==
    (EngineDone /\ InvalidEngineCall) =>
        /\ ret.kind = "error"
        /\ ret.at = "validate"
        /\ df = call.df

\* a call whose only fault is a negative minimum volume
C6_Witness ==
    /\ EngineDone
    /\ RLt(call.min_volume_ul, Zero)
    /\ RGt(call.scaling_factor, Zero)
    /\ call.max_volume_ul = None
    /\ {"Adjusted lib nM", "Target Reads (M)"} \subseteq call.df.columns
    /\ ret.kind = "error"

\* C15: compute_pool_volumes emits expected reads if and only if a total of
\* reads for the run is supplied; when it is, the expected reads of every
\* library are its pool fraction times the total, so the expected reads of
\* one call sum to the total.
C15_ExpectedReads ==
    EngineOk =>
        /\ "Expected Reads (M)" \in ret.value.columns <=> call.total_reads_m # None
        /\ \A i \in DOMAIN ret.value.rows :
                "Expected Reads (M)" \in DOMAIN ret.value.rows[i]
                    <=> call.total_reads_m # None
        /\ call.total_reads_m # None =>
                /\ \A i \in DOMAIN ret.value.rows :
                        ret.value.rows[i]["Expected Reads (M)"]
                            = RMul(ret.value.rows[i]["Pool Fraction"], call.total_reads_m)
                /\ RSum(Column(ret.value, "Expected Reads (M)")) = call.total_reads_m

\* two libraries share a run of 100 M reads unequally
C15_Witness ==
    /\ EngineOk
    /\ call.total_reads_m = R(100)
    /\ Len(ret.value.rows) = 2
    /\ ret.value.rows[1]["Expected Reads (M)"] # ret.value.rows[2]["Expected Reads (M)"]

\* C27: in any compute_pool_volumes call with positive inputs,
\* pool_fraction[i] equals target_reads[i] divided by the sum of target reads
\* of the libraries in that call; it does not depend on any library's
\* molarity, on the scaling factor or on the pre-dilution factors.
C27_FractionIsReadsShare ==
    EngineOk =>
        \A i \in DOMAIN ret.value.rows :
            ret.value.rows[i]["Pool Fraction"] =
                RDiv(call.df.rows[i]["Target Reads (M)"],
                     RSum(Column(call.df, "Target Reads (M)")))

\* two libraries of equal reads, different molarity and different
\* pre-dilution factors share the pool equally
C27_Witness ==
    /\ EngineOk
    /\ Len(ret.value.rows) = 2
    /\ call.df.rows[1]["Target Reads (M)"] = call.df.rows[2]["Target Reads (M)"]
    /\ call.df.rows[1]["Adjusted lib nM"] # call.df.rows[2]["Adjusted lib nM"]
    /\ ret.value.rows[1]["Pre-Dilute Factor"] # ret.value.rows[2]["Pre-Dilute Factor"]
    /\ ret.value.rows[1]["Pool Fraction"] = Rat(1, 2)
    /\ ret.value.rows[2]["Pool Fraction"] = Rat(1, 2)

---------------------------------------------------------------------------
(* Claims about the pre-pooling orchestrator, checked under SpecPrePool *)

PrepoolDone == pc = "done" /\ call.op = "compute_with_prepools"

MembersOf(ds) == [i \in DOMAIN ds |-> SeqToSet(ds[i].member_library_names)]

\* the libraries named by more than one definition
Overlapping(ds) ==
    {n \in UNION {MembersOf(ds)[i] : i \in DOMAIN ds} :
        \E i, j \in DOMAIN ds : i # j /\ n \in MembersOf(ds)[i] /\ n \in MembersOf(ds)[j]}

\* a call the pre-pooling contract allows: valid parameters, the columns the
\* orchestrator reads, non-empty pairwise disjoint definitions naming only
\* libraries of the table
ValidPrepoolCall ==
    /\ PrepoolDone
    /\ RGt(call.scaling_factor, Zero)
    /\ PrepoolColumns \subseteq call.df.columns
    /\ call.defs # <<>>
    /\ Overlapping(call.defs) = {}
    /\ \A i \in DOMAIN call.defs :
        /\ MembersOf(call.defs)[i] # {}
        /\ MembersOf(call.defs)[i] \subseteq SeqToSet(Column(call.df, "Library Name"))

\* C7: constructing a PrePoolingPlan succeeds if and only if
\* libraries_in_prepools + standalone_libraries = total_libraries; in
\* particular compute_with_prepools returns a plan, which satisfies the
\* equality, for every table of uniquely named libraries and every set of
\* non-empty, pairwise disjoint definitions naming only existing libraries.
C7_PlanCountsClaim ==
    /\ (pc = "done" /\ call.op = "PrePoolingPlan") =>
            (ret.kind = "ok" <=>
                call.libraries_in_prepools + call.standalone_libraries
                    = call.total_libraries)
    /\ ValidPrepoolCall =>
            /\ ret.kind = "ok"
            /\ ret.value.libraries_in_prepools + ret.value.standalone_libraries
                    = ret.value.total_libraries

DuplicateIds(ds) == \E i, j \in DOMAIN ds : i # j /\ ds[i].prepool_id = ds[j].prepool_id

\* C10: two definitions sharing a pre-pool id are a hard error of the
\* computation: compute_with_prepools rejects the list before computing
\* anything and returns no plan.
C10_DuplicateIdsRejectedClaim ==
    (PrepoolDone /\ DuplicateIds(call.defs)) =>
        /\ ret.kind = "error"
        /\ ret.engine_calls = 0

\* the call went through every pre-pool and the final pool run: it returned
\* the plan, or the plan's constructor refused the counts (lines 265-280)
FinalPoolBuilt ==
    /\ PrepoolDone
    /\ \/ ret.kind = "ok"
       \/ ret.kind = "error" /\ ret.at = "PrePoolingPlan"

\* prepool_results of lines 214-225 in that call
BuiltPrepools ==
    RunPrepools(call.df, call.defs, call.scaling_factor, call.min_volume_ul,
                call.max_volume_ul, 0).value

\* the names of all members of all definitions of the call
AllMembers == UNION {SeqToSet(call.defs[k].member_library_names) : k \in DOMAIN call.defs}

\* combined_df of lines 232-254 in that call, whose rows the final pool keeps
BuiltFinalTable ==
    CombinedTable(RowsNamed(call.df, SeqToSet(Column(call.df, "Library Name")) \ AllMembers),
                  BuiltPrepools)

\* the rows of the final pool table that carry the given name
FinalRowsNamed(name) ==
    {i \in DOMAIN BuiltFinalTable.rows :
        BuiltFinalTable.rows[i]["Library Name"] = name}

\* the target reads the input table holds for the members of definition k
MemberReads(k) ==
    RSum(Column(RowsNamed(call.df, SeqToSet(call.defs[k].member_library_names)),
                "Target Reads (M)"))

\* C22: in the final pool table built by compute_with_prepools, each pre-pool
\* is represented by one synthetic row whose name is the pre-pool id given in
\* that pre-pool's definition, whose molarity is the pre-pool's prepool_nM,
\* whose target reads are the sum of the members' target reads and whose
\* available volume is the sum of the members' final volumes.
C22_SyntheticRowPerPrepoolClaim ==
    FinalPoolBuilt =>
        \A k \in DOMAIN call.defs :
            /\ Cardinality(FinalRowsNamed(call.defs[k].prepool_id)) = 1
            /\ \A i \in FinalRowsNamed(call.defs[k].prepool_id) :
                /\ BuiltFinalTable.rows[i]["Adjusted lib nM"]
                        = BuiltPrepools[k].calculated_nm
                /\ BuiltFinalTable.rows[i]["Target Reads (M)"] = MemberReads(k)
                /\ BuiltFinalTable.rows[i]["Total Volume"]
                        = RSum(Column(BuiltPrepools[k].member_volumes_json,
                                      "Final Volume (ul)"))

\* create_prepool_from_selection returned a pre-pool
PrepoolCreated ==
    /\ pc = "done"
    /\ call.op = "create_prepool_from_selection"
    /\ ret.kind = "ok"

\* the volume table of the pre-pool's members
PrepoolVolumes == ret.value.member_volumes_json

\* the table of the selected libraries alone, and the engine's run over it
SelectedAlone == RowsNamed(call.df, SeqToSet(call.selected_library_names))

---------------------------------------------------------------------------
(* Claims about the hierarchical orchestrator, checked under SpecHier *)

HierDone == pc = "done" /\ call.op = "compute_hierarchical_pooling"

\* the sub-pools the libraries of a returned plan were pooled into
SubpoolsFormed(plan) ==
    {plan.stages[1].volumes_df_json[i]["SubPool ID"] :
        i \in DOMAIN plan.stages[1].volumes_df_json}

\* C8: every plan returned by compute_hierarchical_pooling for N libraries
\* that form K sub-pools (one per distinct value of the grouping column, no
\* group exceeding the capacity of 96) has exactly two stages numbered 1 and
\* 2, library->subpool then subpool->master; stage 1 has input_count N,
\* output_count K and N pipetting steps; stage 2 has input_count K,
\* output_count 1 and K pipetting steps; total_libraries = N,
\* total_subpools = K and total_pipetting_steps = N + K.
C8_TwoStagePlanCounts ==
    (HierDone /\ ret.kind = "ok") =>
        LET plan == ret.value
            N == Len(call.df.rows)
            K == Cardinality({call.df.rows[i][call.grouping_column] :
                                i \in DOMAIN call.df.rows})
        IN  /\ K = Cardinality(SubpoolsFormed(plan))
            /\ Len(plan.stages) = 2
            /\ plan.stages[1].stage_number = 1
            /\ plan.stages[1].stage = "library_to_subpool"
            /\ plan.stages[1].input_count = N
            /\ plan.stages[1].output_count = K
            /\ plan.stages[1].total_pipetting_steps = N
            /\ Len(plan.stages[1].volumes_df_json) = N
            /\ plan.stages[2].stage_number = 2
            /\ plan.stages[2].stage = "subpool_to_master"
            /\ plan.stages[2].input_count = K
            /\ plan.stages[2].output_count = 1
            /\ plan.stages[2].total_pipetting_steps = K
            /\ Len(plan.stages[2].volumes_df_json) = K
            /\ plan.total_libraries = N
            /\ plan.total_subpools = K
            /\ plan.total_pipetting_steps = N + K

\* three libraries of two projects: two sub-pools, 3 + 2 pipetting steps
C8_Witness ==
    /\ HierDone
    /\ ret.kind = "ok"
    /\ call.grouping_column = "Project ID"
    /\ Len(call.df.rows) = 3
    /\ Cardinality(SubpoolsFormed(ret.value)) = 2
    /\ ret.value.total_pipetting_steps = 5

\* the rows of stage 2 that stand for the given sub-pool
Stage2RowsOf(plan, subpool_id) ==
    {j \in DOMAIN plan.stages[2].volumes_df_json :
        plan.stages[2].volumes_df_json[j]["Library Name"] = subpool_id}

\* C26: in a hierarchical plan, for every library the product of its stage-1
\* pool fraction (within its sub-pool) and its sub-pool's stage-2 pool
\* fraction (within the master pool) equals target_reads of the library
\* divided by the sum of target reads of all libraries, the share the library
\* gets from one single-stage run over the whole set.
C26_TwoStageShareIsSingleStageShare ==
    (HierDone /\ ret.kind = "ok") =>
        \A i \in DOMAIN ret.value.stages[1].volumes_df_json :
            /\ Cardinality(Stage2RowsOf(ret.value,
                    ret.value.stages[1].volumes_df_json[i]["SubPool ID"])) = 1
            /\ \A j \in Stage2RowsOf(ret.value,
                    ret.value.stages[1].volumes_df_json[i]["SubPool ID"]) :
                RMul(ret.value.stages[1].volumes_df_json[i]["Pool Fraction"],
                     ret.value.stages[2].volumes_df_json[j]["Pool Fraction"])
                = RDiv(RowsNamed(call.df,
                          {ret.value.stages[1].volumes_df_json[i]["Library Name"]}
                       ).rows[1]["Target Reads (M)"],
                       RSum(Column(call.df, "Target Reads (M)")))
            /\ compute_pool_volumes(call.df, call.scaling_factor, call.min_volume_ul,
                                    call.max_volume_ul, None).kind = "ok"
            /\ \E k \in DOMAIN call.df.rows :
                /\ call.df.rows[k]["Library Name"]
                        = ret.value.stages[1].volumes_df_json[i]["Library Name"]
                /\ \A j \in Stage2RowsOf(ret.value,
                        ret.value.stages[1].volumes_df_json[i]["SubPool ID"]) :
                    RMul(ret.value.stages[1].volumes_df_json[i]["Pool Fraction"],
                         ret.value.stages[2].volumes_df_json[j]["Pool Fraction"])
                    = compute_pool_volumes(call.df, call.scaling_factor,
                            call.min_volume_ul, call.max_volume_ul, None
                        ).value.rows[k]["Pool Fraction"]

\* three libraries of unequal reads in two projects: the library alone in its
\* sub-pool has stage-1 fraction 1 and a smaller share of the master pool
C26_Witness ==
    /\ HierDone
    /\ ret.kind = "ok"
    /\ call.grouping_column = "Project ID"
    /\ Len(call.df.rows) = 3
    /\ Cardinality(SubpoolsFormed(ret.value)) = 2
    /\ \E i, k \in DOMAIN ret.value.stages[1].volumes_df_json :
        /\ ret.value.stages[1].volumes_df_json[i]["Pool Fraction"] = One
        /\ ret.value.stages[1].volumes_df_json[k]["Pool Fraction"] = Rat(2, 7)
    /\ \E j \in DOMAIN ret.value.stages[2].volumes_df_json :
        ret.value.stages[2].volumes_df_json[j]["Pool Fraction"] = Rat(7, 9)

\* the volume of the other call the finished call is compared with
OtherFinalPoolVolume == R(40)

\* what the finished call returns or raises when only final_pool_volume_ul
\* is replaced by the other volume
OtherVolumeOutcome ==
    compute_hierarchical_pooling(call.df, call.grouping_column, call.scaling_factor,
        OtherFinalPoolVolume, call.min_volume_ul, call.max_volume_ul,
        call.total_reads_m)

\* the two outcomes agree on everything but the echoed field
SameButEchoedVolume(a, b) ==
    /\ a.kind = b.kind
    /\ a.kind = "error" => a = b
    /\ a.kind = "ok" =>
            /\ a.value.final_pool_volume_ul # b.value.final_pool_volume_ul
            /\ [a.value EXCEPT !.final_pool_volume_ul = b.value.final_pool_volume_ul]
                    = b.value

\* C30 as stated: the final_pool_volume_ul argument of
\* compute_hierarchical_pooling influences nothing but the field of the same
\* name echoed in the plan: two calls that differ only in
\* final_pool_volume_ul produce identical stage tables, volumes, fractions,
\* flags and counts.
C30_VolumeOnlyEchoedClaim ==
    (HierDone /\ call.final_pool_volume_ul # OtherFinalPoolVolume) =>
        /\ ret.kind = OtherVolumeOutcome.kind
        /\ ret.kind = "ok" =>
                /\ ret.value.stages = OtherVolumeOutcome.value.stages
                /\ ret.value.total_libraries = OtherVolumeOutcome.value.total_libraries
                /\ ret.value.total_subpools = OtherVolumeOutcome.value.total_subpools
                /\ ret.value.total_pipetting_steps
                        = OtherVolumeOutcome.value.total_pipetting_steps

\* C30, amended: between two calls with positive final_pool_volume_ul that
\* differ only in it, the outcome differs in nothing but the field of the
\* same name echoed in the plan (same stage tables, volumes, fractions, flags
\* and counts, or the same error); a final_pool_volume_ul <= 0 never yields
\* a plan: when nothing fails before, both stages are computed and the plan
\* constructor raises ValidationError.
C30_PositiveVolumeOnlyEchoed ==
    HierDone =>
        /\ RGt(call.final_pool_volume_ul, Zero) =>
                SameButEchoedVolume(ret, OtherVolumeOutcome)
        /\ RLe(call.final_pool_volume_ul, Zero) =>
                /\ ret.kind = "error"
                /\ OtherVolumeOutcome.kind = "ok" =>
                        /\ ret.exc = "ValidationError"
                        /\ ret.at = "HierarchicalPoolingPlan"

\* a plan of two sub-pools for a final pool of 20 ul, where 40 ul gives the
\* same stages
C30_Witness ==
    /\ HierDone
    /\ ret.kind = "ok"
    /\ call.final_pool_volume_ul = R(20)
    /\ ret.value.final_pool_volume_ul = R(20)
    /\ OtherVolumeOutcome.kind = "ok"
    /\ OtherVolumeOutcome.value.final_pool_volume_ul = R(40)
    /\ OtherVolumeOutcome.value.stages = ret.value.stages
    /\ ret.value.total_subpools = 2

---------------------------------------------------------------------------
(* Claims about both orchestrators, checked under SpecMultiStage *)

\* the first error among a sequence of outcomes, None if there is none
FirstError(outcomes) ==
    IF \E i \in DOMAIN outcomes : outcomes[i].kind = "error"
    THEN outcomes[CHOOSE i \in DOMAIN outcomes :
                    /\ outcomes[i].kind = "error"
                    /\ \A j \in 1..(i - 1) : outcomes[j].kind = "ok"]
    ELSE None

\* what each per-pre-pool computation of the finished call returns or raises
PrepoolOutcomes ==
    [i \in DOMAIN call.defs |->
        create_prepool_from_selection(call.df, call.defs[i].member_library_names,
            call.defs[i].prepool_name, call.scaling_factor, call.min_volume_ul,
            call.max_volume_ul)]

\* a finished compute_with_prepools call that got past the orchestrator's own
\* checks of lines 193-212
PrepoolLoopEntered ==
    /\ PrepoolDone
    /\ call.defs # <<>>
    /\ {"Library Name", "Adjusted lib nM", "Target Reads (M)", "Total Volume"}
            \subseteq call.df.columns
    /\ Overlapping(call.defs) = {}

\* what each per-sub-pool engine call of the finished call returns or raises
SubpoolEngineOutcomes ==
    LET with == create_subpool_definitions(call.df, call.grouping_column,
                                           DefaultMaxLibrariesPerSubpool).value
        ids == Uniq(Column(with, "SubPool ID"))
    IN  [i \in DOMAIN ids |->
            compute_pool_volumes(RowsOfSubpool(with, ids[i]), call.scaling_factor,
                                 call.min_volume_ul, call.max_volume_ul, None)]

\* a finished compute_hierarchical_pooling call that got past the checks of
\* lines 308-315
HierLoopEntered ==
    /\ HierDone
    /\ {"Library Name", "Adjusted lib nM", "Target Reads (M)"} \subseteq call.df.columns
    /\ call.grouping_column \in call.df.columns

\* C11: compute_hierarchical_pooling and compute_with_prepools return a plan
\* only when every per-sub-pool or per-pre-pool computation and the final
\* engine call succeeded; when one of them fails, the first such error is
\* what the caller gets and no plan is returned; a returned hierarchical plan
\* is complete: its first stage holds every library and its second stage
\* every sub-pool.
C11_NoPartialPlan ==
    /\ PrepoolLoopEntered =>
            /\ FirstError(PrepoolOutcomes) # None =>
                    /\ ret.kind = "error"
                    /\ ret.exc = FirstError(PrepoolOutcomes).exc
                    /\ ret.msg = FirstError(PrepoolOutcomes).msg
                    /\ ret.at = FirstError(PrepoolOutcomes).at
                    /\ ret.names = FirstError(PrepoolOutcomes).names
            /\ ret.kind = "ok" => FirstError(PrepoolOutcomes) = None
    /\ HierLoopEntered =>
            /\ FirstError(SubpoolEngineOutcomes) # None =>
                    ret = FirstError(SubpoolEngineOutcomes)
            /\ ret.kind = "ok" =>
                    /\ FirstError(SubpoolEngineOutcomes) = None
                    /\ Len(ret.value.stages[1].volumes_df_json) = Len(call.df.rows)
                    /\ Len(ret.value.stages[2].volumes_df_json)
                            = Len(SubpoolEngineOutcomes)

\* the first pre-pool was computed, the second names a library the table does
\* not hold: the error of the second reaches the caller
C11_Witness ==
    /\ PrepoolLoopEntered
    /\ Len(call.defs) = 2
    /\ PrepoolOutcomes[1].kind = "ok"
    /\ PrepoolOutcomes[2].kind = "error"
    /\ ret.kind = "error"
    /\ ret.msg = "Some selected libraries not found"
    /\ ret.engine_calls = 1

---------------------------------------------------------------------------
(* Claims about compute_subpool_properties, checked under SpecSubpool *)

SubpoolDone == pc = "done" /\ call.op = "compute_subpool_properties"

\* the final volumes of the members: the rows of df_volumes that name a
\* library of df_libraries
MemberVolumes ==
    Column(RowsNamed(call.df_volumes, SeqToSet(Column(call.df_libraries, "Library Name"))),
           "Final Volume (ul)")

\* C12: a sub-pool whose member final volumes sum to zero is never turned
\* into a SubPoolRecord: compute_subpool_properties raises instead of
\* returning a record, and every record it returns has total_volume_ul > 0,
\* the sum of the member volumes.
C12_ZeroVolumeSubpoolRejected ==
    SubpoolDone =>
        /\ RSum(MemberVolumes) = Zero => ret.kind = "error"
        /\ ret.kind = "ok" =>
                /\ RGt(ret.value.total_volume_ul, Zero)
                /\ ret.value.total_volume_ul = RSum(MemberVolumes)

\* two members whose volumes are both zero: the record is refused
C12_Witness ==
    /\ SubpoolDone
    /\ Len(call.df_volumes.rows) = 2
    /\ \A i \in DOMAIN call.df_volumes.rows :
            call.df_volumes.rows[i]["Final Volume (ul)"] = Zero
    /\ ret.kind = "error"
    /\ ret.exc = "ValidationError"

\* the libraries of df_libraries that have a row in df_volumes, in table order
MemberRows ==
    SelectSeq(call.df_libraries.rows,
              LAMBDA r : InSeq(Column(call.df_volumes, "Library Name"), r["Library Name"]))

\* the final volume df_volumes holds for the library of that name
VolumeOf(name) ==
    RowsNamed(call.df_volumes, {name}).rows[1]["Final Volume (ul)"]

\* C23: the SubPoolRecord built from the members of a sub-pool has
\* total_volume = sum of the members' final volumes, calculated_nm =
\* sum(effective_molarity * final_volume) / total_volume, target_reads = sum
\* of the members' target reads, and member list = exactly the libraries of
\* that sub-pool (all of df_libraries when every one of them has a volume).
C23_SubPoolRecordProperties ==
    (SubpoolDone /\ ret.kind = "ok") =>
        /\ ret.value.total_volume_ul = RSum(MemberVolumes)
        /\ ret.value.calculated_nm =
                RDiv(RSum([i \in DOMAIN MemberRows |->
                            RMul(MemberRows[i]["Adjusted lib nM"],
                                 VolumeOf(MemberRows[i]["Library Name"]))]),
                     RSum(MemberVolumes))
        /\ ret.value.target_reads_m =
                RSum([i \in DOMAIN MemberRows |-> MemberRows[i]["Target Reads (M)"]])
        /\ ret.value.member_libraries =
                [i \in DOMAIN MemberRows |-> MemberRows[i]["Library Name"]]
        /\ Len(call.df_volumes.rows) = Len(call.df_libraries.rows) =>
                ret.value.member_libraries = Column(call.df_libraries, "Library Name")

\* 2 ul of a 10 nM library and 6 ul of a 20 nM one: 8 ul at 17.5 nM, 40 M reads
C23_Witness ==
    /\ SubpoolDone
    /\ ret.kind = "ok"
    /\ ret.value.member_libraries = <<"L1", "L2">>
    /\ call.df_libraries.rows[1]["Adjusted lib nM"] = R(10)
    /\ call.df_libraries.rows[2]["Adjusted lib nM"] = R(20)
    /\ ret.value.total_volume_ul = R(8)
    /\ ret.value.calculated_nm = Rat(35, 2)
    /\ ret.value.target_reads_m = R(40)

---------------------------------------------------------------------------
(* Claims about the molarity functions, checked under SpecMolarity *)

\* c * 1e6 / (660 * L)
MolarityFormula(c, L) == RDiv(RMul(c, R(1000000)), RMul(R(660), L))

\* the table t carries the molarity columns the source table src calls for
MolarityColumnsOf(src, t) ==
    /\ Len(t.rows) = Len(src.rows)
    /\ \A i \in DOMAIN src.rows :
        LET calculated == MolarityFormula(src.rows[i]["Final ng/ul"],
                                          src.rows[i]["Adjusted peak size"])
            supplied == /\ "Empirical Library nM" \in src.columns
                        /\ src.rows[i]["Empirical Library nM"] # None
                        /\ RGt(src.rows[i]["Empirical Library nM"], Zero)
        IN  /\ t.rows[i]["Calculated nM"] = calculated
            /\ supplied => t.rows[i]["Effective nM (Use)"]
                                = src.rows[i]["Empirical Library nM"]
            /\ ~supplied => t.rows[i]["Effective nM (Use)"] = calculated
            /\ t.rows[i]["Adjusted lib nM"] = t.rows[i]["Effective nM (Use)"]

\* C13: for every library of a table compute_effective_molarity returns, the
\* calculated molarity is derived from concentration and fragment size, the
\* effective molarity is the empirical one when it is supplied and > 0 and the
\* calculated one when it is missing, zero or negative, and the stock volume
\* the engine then computes uses this effective value.
C13_EffectiveMolarity ==
    /\ (pc = "molarity" /\ ret.kind = "ok") => MolarityColumnsOf(df, ret.value)
    /\ (pc = "done" /\ call.op = "compute_pool_volumes" /\ ret.kind = "ok") =>
            /\ MolarityColumnsOf(df, call.df)
            /\ \A i \in DOMAIN ret.value.rows :
                    ret.value.rows[i]["Stock Volume (ul)"]
                        = RDiv(RMul(call.scaling_factor, df.rows[i]["Target Reads (M)"]),
                               call.df.rows[i]["Effective nM (Use)"])

\* one library with a positive empirical molarity, one whose empirical value
\* is zero, both pooled
C13_Witness ==
    /\ pc = "done"
    /\ call.op = "compute_pool_volumes"
    /\ ret.kind = "ok"
    /\ Len(df.rows) = 2
    /\ "Empirical Library nM" \in df.columns
    /\ df.rows[1]["Empirical Library nM"] = R(50)
    /\ df.rows[2]["Empirical Library nM"] = Zero
    /\ call.df.rows[1]["Effective nM (Use)"] = R(50)
    /\ call.df.rows[2]["Effective nM (Use)"] = call.df.rows[2]["Calculated nM"]

\* C14: compute_molarity_from_concentration(c, L) returns c * 1e6 / (660 * L)
\* for every c > 0 and L > 0 and raises a ValueError, returning no value,
\* whenever c <= 0 or L <= 0.
C14_MolarityConversion ==
    (pc = "done" /\ call.op = "compute_molarity_from_concentration") =>
        /\ (RGt(call.concentration_ng_ul, Zero) /\ RGt(call.fragment_size_bp, Zero)) =>
                /\ ret.kind = "ok"
                /\ ret.value = MolarityFormula(call.concentration_ng_ul,
                                               call.fragment_size_bp)
        /\ (RLe(call.concentration_ng_ul, Zero) \/ RLe(call.fragment_size_bp, Zero)) =>
                /\ ret.kind = "error"
                /\ ret.exc = "ValueError"

\* a concentration of exactly zero with a valid fragment size is refused
C14_Witness ==
    /\ pc = "done"
    /\ call.op = "compute_molarity_from_concentration"
    /\ call.concentration_ng_ul = Zero
    /\ RGt(call.fragment_size_bp, Zero)
    /\ ret.kind = "error"

---------------------------------------------------------------------------
(* Claims about determine_pooling_strategy, checked under SpecStrategy *)

StrategyDone == pc = "done" /\ call.op = "determine_pooling_strategy"

\* the candidate grouping columns present in the table of the call whose
\* number of distinct values reaches the minimum
ViableColumns ==
    {c \in {"Project ID"} \cap call.df.columns :
        Cardinality({call.df.rows[i][c] : i \in DOMAIN call.df.rows})
            >= call.min_subpools_for_hierarchical}

---------------------------------------------------------------------------
(* Claims about summarize_by_project, checked under SpecSummary *)

SummaryDone == pc = "done" /\ call.op = "summarize_by_project"

SummaryOk == SummaryDone /\ ret.kind = "ok"

\* the rows of the summarised table that belong to project p
LibrariesOf(p) == {i \in DOMAIN call.df.rows : call.df.rows[i]["Project ID"] = p}

\* the sum of column c over a set of rows of the summarised table
SumOver(c, S) ==
    RSum([k \in 1..Cardinality(S) |->
            call.df.rows[CHOOSE i \in S :
                            Cardinality({j \in S : j < i}) = k - 1][c]])

\* C17: the rows returned by summarize_by_project appear in the order in
\* which each project id first occurs in the input table, for every input row
\* order.
C17_FirstOccurrenceOrderClaim ==
    SummaryOk => Column(ret.value, "Project ID") = Uniq(Column(call.df, "Project ID"))

\* C18: summarize_by_project emits exactly one row per distinct project id,
\* whose library count, stock-volume sum, pool-fraction sum and (when
\* present) expected-reads sum are taken over exactly that project's
\* libraries; the counts add up to the number of libraries and the project
\* pool fractions to the libraries' total, 1 for a table the engine returned.
C18_OneRowPerProject ==
    SummaryOk =>
        /\ SeqToSet(Column(ret.value, "Project ID"))
                = SeqToSet(Column(call.df, "Project ID"))
        /\ Len(ret.value.rows) = Cardinality(SeqToSet(Column(call.df, "Project ID")))
        /\ \A g \in DOMAIN ret.value.rows :
            LET row == ret.value.rows[g]
                members == LibrariesOf(row["Project ID"])
            IN  /\ row["Number of Libraries"] = Cardinality(members)
                /\ "Stock Volume (ul)" \in call.df.columns =>
                        row["Total Volume (ul)"] = SumOver("Stock Volume (ul)", members)
                /\ "Pool Fraction" \in call.df.columns =>
                        row["Pool Fraction"] = SumOver("Pool Fraction", members)
                /\ "Expected Reads (M)" \in DOMAIN row
                        <=> "Expected Reads (M)" \in call.df.columns
                /\ "Expected Reads (M)" \in call.df.columns =>
                        row["Expected Reads (M)"] = SumOver("Expected Reads (M)", members)
        /\ LET counts == Column(ret.value, "Number of Libraries")
           IN  RSum([g \in DOMAIN counts |-> R(counts[g])]) = R(Len(call.df.rows))
        /\ "Pool Fraction" \in call.df.columns =>
                /\ RSum(Column(ret.value, "Pool Fraction"))
                        = RSum(Column(call.df, "Pool Fraction"))
                /\ RSum(Column(ret.value, "Pool Fraction")) = One

\* three pooled libraries, two of one project and one of another, with
\* expected reads
C18_Witness ==
    /\ SummaryOk
    /\ Len(call.df.rows) = 3
    /\ "Expected Reads (M)" \in call.df.columns
    /\ Len(ret.value.rows) = 2
    /\ \E g \in DOMAIN ret.value.rows : ret.value.rows[g]["Number of Libraries"] = 2

---------------------------------------------------------------------------
(* Claims about ValidationResult, checked under SpecValidation *)

\* C19: starting from a ValidationResult created with is_valid = True and no
\* errors, after any sequence of add_error and add_warning calls is_valid is
\* True exactly when add_error was never called, that is when errors is still
\* empty: add_error appends the message and sets is_valid to False,
\* add_warning appends to warnings and changes neither is_valid nor errors,
\* and no step sets is_valid back to True.
C19_ValidUntilFirstError ==
    /\ [](validation.is_valid <=> validation.errors = <<>>)
    /\ [][/\ call'.op = "add_error" =>
                /\ validation'.errors = Append(validation.errors, call'.message)
                /\ ~validation'.is_valid
                /\ validation'.warnings = validation.warnings
          /\ call'.op = "add_warning" =>
                /\ validation'.warnings = Append(validation.warnings, call'.message)
                /\ validation'.is_valid = validation.is_valid
                /\ validation'.errors = validation.errors
          /\ call'.op \notin {"add_error", "add_warning"} => validation' = validation
          /\ ~validation.is_valid => ~validation'.is_valid]_vars

\* a warning added after an error: two warnings, one error, still invalid
C19_Witness ==
    /\ validation # None
    /\ call.op = "add_warning"
    /\ Len(validation.warnings) = 2
    /\ Len(validation.errors) = 1
    /\ ~validation.is_valid

---------------------------------------------------------------------------
(* Claims about create_subpool_definitions, checked under SpecHier *)

\* the call was create_subpool_definitions and it returned a table
SubpoolsDefined ==
    /\ pc = "done"
    /\ call.op = "create_subpool_definitions"
    /\ ret.kind = "ok"

\* the number of rows of the input table that hold the grouping value of row i
GroupSizeOfRow(i) ==
    Len(GroupIndex(call.df, call.grouping_column,
                   call.df.rows[i][call.grouping_column]))

\* C20: create_subpool_definitions gives every library row of a group with
\* at most capacity rows the sub-pool id "{that row's own grouping value}_pool",
\* whatever the order of the rows in the input table (also when rows of
\* different groups are interleaved or not sorted by group value).
C20_OwnGroupPoolIdClaim ==
    SubpoolsDefined =>
        \A i \in DOMAIN call.df.rows :
            GroupSizeOfRow(i) <= call.max_libraries_per_subpool =>
                ret.value.rows[i]["SubPool ID"] =
                    <<call.df.rows[i][call.grouping_column], "_pool">>

\* the sub-pool ids of the returned table, one per row
AssignedIds == Column(ret.value, "SubPool ID")

\* C28: for any input table with a default row index,
\* create_subpool_definitions assigns every library row exactly one sub-pool
\* id, every sub-pool has between 1 and capacity members, and the sub-pool
\* sizes add up to the number of libraries; the stage-1 volume table of
\* compute_hierarchical_pooling therefore holds every library exactly once.
C28_SubpoolsPartitionLibraries ==
    /\ SubpoolsDefined =>
        /\ Len(ret.value.rows) = Len(call.df.rows)
        /\ \A i \in DOMAIN call.df.rows :
            /\ "SubPool ID" \in DOMAIN ret.value.rows[i]
            /\ \A c \in call.df.columns : ret.value.rows[i][c] = call.df.rows[i][c]
        /\ \A s \in SeqToSet(AssignedIds) :
            /\ Count(AssignedIds, s) >= 1
            /\ Count(AssignedIds, s) <= call.max_libraries_per_subpool
        /\ RSum([k \in DOMAIN Uniq(AssignedIds) |->
                    R(Count(AssignedIds, Uniq(AssignedIds)[k]))])
                = R(Len(call.df.rows))
    /\ (HierDone /\ ret.kind = "ok") =>
        /\ Len(ret.value.stages[1].volumes_df_json) = Len(call.df.rows)
        /\ \A i \in DOMAIN call.df.rows :
            Cardinality({k \in DOMAIN ret.value.stages[1].volumes_df_json :
                ret.value.stages[1].volumes_df_json[k]["Library Name"]
                    = call.df.rows[i]["Library Name"]}) = 1

\* three libraries of one project with capacity 2: sub-pools of 2 and 1
C28_Witness ==
    /\ SubpoolsDefined
    /\ call.grouping_column = "Project ID"
    /\ call.max_libraries_per_subpool = 2
    /\ Len(call.df.rows) = 3
    /\ AssignedIds = <<<<"A", "_pool_", 1>>, <<"A", "_pool_", 1>>, <<"A", "_pool_", 2>>>>

---------------------------------------------------------------------------
(* Claims about the splitting of large groups, checked under SpecSplit *)

\* the 1-based place of row i among the rows of its own group, in row order
RankInGroup(i) ==
    Cardinality({j \in 1..i : call.df.rows[j][call.grouping_column] =
                              call.df.rows[i][call.grouping_column]})

\* C21: a group of n > capacity rows is split into exactly ceil(n / capacity)
\* sub-pools: chunk k (1-based) is named "{group_value}_pool_k" and holds the
\* group's rows (k-1)*capacity+1 .. min(k*capacity, n) in the group's own row
\* order, wherever the group's rows sit in the table.
C21_ChunksFollowGroupOrderClaim ==
    SubpoolsDefined =>
        \A i \in DOMAIN call.df.rows :
            GroupSizeOfRow(i) > call.max_libraries_per_subpool =>
                ret.value.rows[i]["SubPool ID"] =
                    <<call.df.rows[i][call.grouping_column], "_pool_",
                      ((RankInGroup(i) - 1) \div call.max_libraries_per_subpool) + 1>>

---------------------------------------------------------------------------
(* Claims about all core operations, checked under SpecFrame *)

\* C25: no core operation (compute_effective_molarity, compute_pool_volumes,
\* summarize_by_project, create_subpool_definitions,
\* compute_subpool_properties, compute_hierarchical_pooling,
\* create_prepool_from_selection, compute_with_prepools) changes the table or
\* the definition list the caller passed in: after the call, successful or
\* failed, the caller's rows, columns and values are the same as before.
C25_CallerInputsUnchanged ==
    /\ [][df' = df /\ defs' = defs]_vars
    /\ [](("df" \in DOMAIN call => call.df = df)
          /\ ("df_libraries" \in DOMAIN call => call.df_libraries = df)
          /\ ("defs" \in DOMAIN call => call.defs = defs))

\* create_subpool_definitions returned a table with the new column while the
\* caller's table has none
C25_Witness ==
    /\ pc = "done"
    /\ call.op = "create_subpool_definitions"
    /\ ret.kind = "ok"
    /\ "SubPool ID" \in ret.value.columns
    /\ "SubPool ID" \notin df.columns
    /\ Len(df.rows) = 2

---------------------------------------------------------------------------
(* Claims about process_upload, checked under SpecUpload *)

\* what compute_hierarchical_pooling does in the finished call, when the
\* call reaches it
UploadPlan ==
    compute_hierarchical_pooling(compute_effective_molarity(call.validated_df).value,
        call.grouping_column, call.scaling_factor, R(20), call.min_volume,
        PositiveOrNone(call.max_volume), PositiveOrNone(call.total_reads))

\* the hierarchical strategy was chosen, the call reached
\* compute_hierarchical_pooling and it raised
HierarchicalFailed ==
    /\ pc = "done"
    /\ call.op = "process_upload"
    /\ call.file_obj # None
    /\ call.strategy_choice = "hierarchical"
    /\ RGt(call.scaling_factor, Zero)
    /\ compute_effective_molarity(call.validated_df).kind = "ok"
    /\ UploadPlan.kind = "error"

\* C29: when the hierarchical strategy is chosen in process_upload and
\* compute_hierarchical_pooling raises, the status message returned to the
\* user reports the hierarchical pooling error and the fallback to
\* single-stage pooling; the failure is not replaced by a plain single-stage
\* success message.
C29_HierarchicalErrorReportedClaim ==
    HierarchicalFailed =>
        /\ InSeq(ret.value.status_message, "HIERARCHICAL POOLING ERROR")
        /\ InSeq(ret.value.status_message, "Falling back to single-stage pooling.")
        /\ ret.value.status_message[1] # "SINGLE-STAGE POOLING COMPLETE"

====
